---------------------------- MODULE Spec2Model ----------------------------
(***************************************************************************)
(* A model of svelo's decode-and-rank pipeline (src/src/svelo/cli.py,      *)
(* decoders.py, utils.py): the chain search _gather, the decode probes it  *)
(* drives, the English-likelihood score, and the ranking, filtering and    *)
(* printing done by _decode_text / _print_results.                         *)
(*                                                                         *)
(* Text is a TLA+ string (a sequence of characters), bytes are sequences   *)
(* of integers 0..255.  Scores are held in thousandths (Scale): the value  *)
(* of english_score is the floor of 1000 times the exact rational value of *)
(* the expression the code evaluates in floating point.                    *)
(***************************************************************************)
EXTENDS Integers, Sequences, FiniteSets, TLC

(***************************************************************************)
(* Characters and bytes                                                    *)
(***************************************************************************)

\* The printable ASCII characters in code order: code points 32..95 and
\* 97..126 (the grave accent, 96, cannot be written in a string here and is
\* outside the model).
ASCII_LO == " !\"#$%&'()*+,-./0123456789:;<=>?@ABCDEFGHIJKLMNOPQRSTUVWXYZ[\\]^_"
ASCII_HI == "abcdefghijklmnopqrstuvwxyz{|}~"
ASCII == ASCII_LO \o ASCII_HI

LOWER == "abcdefghijklmnopqrstuvwxyz"
UPPER == "ABCDEFGHIJKLMNOPQRSTUVWXYZ"
DIGITS == "0123456789"

\* The character U+FFFD that a lossy UTF-8 decoding puts in place of an
\* invalid byte; any one-character string outside ASCII serves.
REPLACEMENT == "\f"

Char(s, i) == SubSeq(s, i, i)
Rest(s) == SubSeq(s, 2, Len(s))
Chars(s) == {Char(s, i) : i \in 1..Len(s)}

Min(a, b) == IF a <= b THEN a ELSE b
Max(a, b) == IF a >= b THEN a ELSE b

OrdTable ==
  [c \in Chars(ASCII) |->
     IF c \in Chars(ASCII_LO)
     THEN 31 + (CHOOSE i \in 1..Len(ASCII_LO) : Char(ASCII_LO, i) = c)
     ELSE 96 + (CHOOSE i \in 1..Len(ASCII_HI) : Char(ASCII_HI, i) = c)]

\* ord(ch) for the characters of the model: printable ASCII, tab, newline,
\* carriage return.
ord(c) ==
  CASE c = "\t" -> 9
    [] c = "\n" -> 10
    [] c = "\r" -> 13
    [] OTHER -> OrdTable[c]

\* chr(n) for 7-bit code points of the model.
chr(n) ==
  CASE n = 9 -> "\t"
    [] n = 10 -> "\n"
    [] n = 13 -> "\r"
    [] n >= 97 -> Char(ASCII_HI, n - 96)
    [] OTHER -> Char(ASCII_LO, n - 31)

\* str.encode("utf-8") on the model's characters (all below U+0080: one
\* byte each).
RECURSIVE encode_utf8(_)
encode_utf8(text) ==
  IF text = "" THEN <<>>
  ELSE <<ord(Char(text, 1))>> \o encode_utf8(Rest(text))

\* to_text: bytes.decode("utf-8", errors="replace").  A byte below 0x80 is
\* its own character; a byte from 0x80 up that starts no valid sequence is
\* replaced by U+FFFD (the model has no multi-byte sequences).
RECURSIVE to_text(_)
to_text(data) ==
  IF data = <<>> THEN ""
  ELSE (IF data[1] < 128 THEN chr(data[1]) ELSE REPLACEMENT) \o to_text(Tail(data))

LowerChars == Chars(LOWER)
UpperChars == Chars(UPPER)
DigitChars == Chars(DIGITS)
SpaceChars == {" ", "\t", "\n", "\r"}

isspace(c) == c \in SpaceChars
isdigit(c) == c \in DigitChars
isalpha(c) == c \in LowerChars \/ c \in UpperChars
islower(c) == c \in LowerChars
isupper(c) == c \in UpperChars

\* string.printable: digits, letters, punctuation and whitespace.
PRINTABLE == Chars(ASCII) \cup {"\t", "\n", "\r"}

\* str.strip(): leading and trailing whitespace removed.
RECURSIVE lstrip(_)
lstrip(text) ==
  IF text # "" /\ isspace(Char(text, 1)) THEN lstrip(Rest(text)) ELSE text

RECURSIVE rstrip(_)
rstrip(text) ==
  IF text # "" /\ isspace(Char(text, Len(text)))
  THEN rstrip(SubSeq(text, 1, Len(text) - 1)) ELSE text

strip(text) == rstrip(lstrip(text))

\* str.lower() on ASCII.
RECURSIVE lower(_)
lower(text) ==
  IF text = "" THEN ""
  ELSE LET c == Char(text, 1)
       IN (IF isupper(c) THEN chr(ord(c) + 32) ELSE c) \o lower(Rest(text))

Count(text, S) == Cardinality({i \in 1..Len(text) : Char(text, i) \in S})

(***************************************************************************)
(* utils.py: english_score, hexlike_ratio, is_ctf_flag                     *)
(***************************************************************************)

\* Scores are integers in thousandths: Scale stands for the float 1.0.
Scale == 1000

COMMON_WORDS ==
  {"the", "be", "to", "of", "and", "a", "in", "that", "have", "i", "it",
   "for", "not", "on", "with", "he", "as", "you", "do", "at", "this",
   "but", "his", "by", "from", "they", "we", "say", "her", "she", "or",
   "an", "will", "my", "one", "all", "would", "there", "their", "what",
   "so", "up", "out", "if", "about", "who", "get", "which", "go",
   "hello", "me", "world"}

VOWELS == {"a", "e", "i", "o", "u"}
HEX_CHARS == Chars("0123456789abcdef")

\* re.findall(r"[A-Za-z]{2,}", text): the maximal runs of two or more ASCII
\* letters, as <<first, last>> index pairs.
AsciiLetter(c) == c \in LowerChars \/ c \in UpperChars

WordRuns(text) ==
  {r \in (1..Len(text)) \X (1..Len(text)) :
     /\ r[2] > r[1]
     /\ \A i \in r[1]..r[2] : AsciiLetter(Char(text, i))
     /\ (r[1] = 1 \/ ~AsciiLetter(Char(text, r[1] - 1)))
     /\ (r[2] = Len(text) \/ ~AsciiLetter(Char(text, r[2] + 1)))}

\* re.sub(r"\s+", "", text)
RECURSIVE remove_whitespace(_)
remove_whitespace(text) ==
  IF text = "" THEN ""
  ELSE (IF isspace(Char(text, 1)) THEN "" ELSE Char(text, 1))
         \o remove_whitespace(Rest(text))

\* hexlike_ratio as the fraction <<hex_chars, len(raw)>>; <<0, 1>> is 0.0.
hexlike_ratio(text) ==
  LET raw == remove_whitespace(text)
  IN IF raw = "" THEN <<0, 1>>
     ELSE <<Count(lower(raw), HEX_CHARS), Len(raw)>>

\* A score that counts the printable characters without dividing by the
\* length.
english_score_per_character(text) == Count(text, PRINTABLE) * Scale

\* english_score, in thousandths.  With T = total, P = printable,
\* L = letters, S = spaces, G = digits, V = vowels, H = hits, W = len(words):
\*   signal = 0.45*L/T + 0.2*S/T + 0.2*V/L + 0.15*H/W
\*          = signalNum / (100 * D),  D = T * L * W (a zero L or W taken as
\*            1: the code then sets the ratio to 0.0 and its numerator is 0)
\*   0.2 + 0.8*signal = (25*D + signalNum) / (125*D)
\*   1.0 - 0.6*G/T    = (5*T - 3*G) / (5*T)
\*   score = P/T * (25*D + signalNum)/(125*D) * max(0, 5*T - 3*G)/(5*T)
\*           * (3/10 if hex-like)
\* and 1000*score = 4 * P * (25*D + signalNum) * max(0, 5*T - 3*G) * hexNum
\*                  / (25 * T * T * D)  with hexNum 3 or 10.
english_score(text) ==
  IF text = "" THEN 0
  ELSE
    LET total == Len(text)
        printable == Count(text, PRINTABLE)
        letters == Cardinality({i \in 1..total : isalpha(Char(text, i))})
        spaces == Cardinality({i \in 1..total : isspace(Char(text, i))})
        digits == Cardinality({i \in 1..total : isdigit(Char(text, i))})
        low == lower(text)
        vowels == Cardinality({i \in 1..total :
                     Char(low, i) \in VOWELS /\ isalpha(Char(low, i))})
        words == WordRuns(text)
        hits == Cardinality({r \in words :
                     lower(SubSeq(text, r[1], r[2])) \in COMMON_WORDS})
        lettersDen == IF letters > 0 THEN letters ELSE 1
        wordsDen == IF words # {} THEN Cardinality(words) ELSE 1
        D == total * lettersDen * wordsDen
        signalNum == 45 * letters * lettersDen * wordsDen
                     + 20 * spaces * lettersDen * wordsDen
                     + 20 * vowels * total * wordsDen
                     + 15 * hits * total * lettersDen
        digitNum == Max(0, 5 * total - 3 * digits)
        hex == hexlike_ratio(text)
        hexNum == IF 10 * hex[1] > 9 * hex[2] /\ 20 * spaces < total
                  THEN 3 ELSE 10
        score == (4 * printable * (25 * D + signalNum) * digitNum * hexNum)
                   \div (25 * total * total * D)
    IN Max(0, Min(Scale, score))

\* is_ctf_flag: re.search(r'\w+\{.+\}', text.strip()): a word character
\* right before a "{", then one or more characters other than newline, then
\* a "}".
WordChar(c) == isalpha(c) \/ isdigit(c) \/ c = "_"

is_ctf_flag(text) ==
  IF text = "" THEN FALSE
  ELSE
    LET stripped == strip(text)
    IN \E p \in 2..Len(stripped) : \E q \in (p + 2)..Len(stripped) :
         /\ WordChar(Char(stripped, p - 1))
         /\ Char(stripped, p) = "{"
         /\ Char(stripped, q) = "}"
         /\ \A i \in (p + 1)..(q - 1) : Char(stripped, i) # "\n"

(***************************************************************************)
(* decoders.py: the decode probes driven by the chain search               *)
(***************************************************************************)

DecodeResult(name, output, note) ==
  [name |-> name, output |-> output, note |-> note]

\* str(n) for n >= 0, as f-strings format an int.
RECURSIVE str(_)
str(n) ==
  IF n < 10 THEN Char(DIGITS, n + 1)
  ELSE str(n \div 10) \o Char(DIGITS, (n % 10) + 1)

\* codecs.decode(text, "rot_13"): letters rotated by 13 places in their case.
RECURSIVE rot_13(_)
rot_13(text) ==
  IF text = "" THEN ""
  ELSE LET ch == Char(text, 1)
           out == IF islower(ch)
                  THEN chr(((ord(ch) - ord("a") + 13) % 26) + ord("a"))
                  ELSE IF isupper(ch)
                  THEN chr(((ord(ch) - ord("A") + 13) % 26) + ord("A"))
                  ELSE ch
       IN out \o rot_13(Rest(text))

_try_rot13(text, data) ==
  IF text = "" THEN <<>>
  ELSE LET out_text == rot_13(text)
       IN IF out_text = text THEN <<>>
          ELSE <<DecodeResult("rot13", encode_utf8(out_text), "")>>

RECURSIVE atbash_map(_)
atbash_map(text) ==
  IF text = "" THEN ""
  ELSE LET ch == Char(text, 1)
           out == IF islower(ch)
                  THEN chr(ord("z") - (ord(ch) - ord("a")))
                  ELSE IF isupper(ch)
                  THEN chr(ord("Z") - (ord(ch) - ord("A")))
                  ELSE ch
       IN out \o atbash_map(Rest(text))

_try_atbash(text, data) ==
  IF text = "" THEN <<>>
  ELSE LET out_text == atbash_map(text)
       IN IF out_text = text THEN <<>>
          ELSE <<DecodeResult("atbash", encode_utf8(out_text), "")>>

\* text[::-1]
RECURSIVE reversed(_)
reversed(text) ==
  IF text = "" THEN ""
  ELSE reversed(Rest(text)) \o Char(text, 1)

_try_reverse_unguarded(text, data) ==
  IF text = "" THEN <<>>
  ELSE <<DecodeResult("reverse", encode_utf8(reversed(text)), "")>>

_try_reverse(text, data) ==
  IF text = "" THEN <<>>
  ELSE LET out_text == reversed(text)
       IN IF out_text = text THEN <<>>
          ELSE <<DecodeResult("reverse", encode_utf8(out_text), "")>>

\* clean_whitespace(text): every whitespace character removed.
RECURSIVE clean_whitespace(_)
clean_whitespace(text) ==
  IF text = "" THEN ""
  ELSE (IF isspace(Char(text, 1)) THEN "" ELSE Char(text, 1))
         \o clean_whitespace(Rest(text))

\* The zigzag of _rail_fence_decrypt: the rail (0-based) of each of the n
\* positions, starting on `rail` moving in `direction`.
RECURSIVE rail_pattern(_, _, _, _)
rail_pattern(n, rails, rail, direction) ==
  IF n = 0 THEN <<>>
  ELSE LET d == IF rail = 0 THEN 1
                ELSE IF rail = rails - 1 THEN -1
                ELSE direction
       IN <<rail>> \o rail_pattern(n - 1, rails, rail + d, d)

\* _rail_fence_decrypt: the text is cut into one slice per rail (rail r gets
\* pattern.count(r) characters, slices in rail order); output position i takes
\* the next unread character of the slice of pattern[i].
RECURSIVE rail_fence_output(_, _, _)
rail_fence_output(text, pattern, i) ==
  IF i > Len(pattern) THEN ""
  ELSE LET rail == pattern[i]
           idx == Cardinality({j \in 1..Len(pattern) : pattern[j] < rail})
           pos == Cardinality({j \in 1..(i - 1) : pattern[j] = rail})
       IN Char(text, idx + pos + 1) \o rail_fence_output(text, pattern, i + 1)

_rail_fence_decrypt_two_rails(text, rails) ==
  IF rails <= 1 THEN text
  ELSE rail_fence_output(text, rail_pattern(Len(text), 2, 0, 1), 1)

_rail_fence_decrypt(text, rails) ==
  IF rails <= 1 THEN text
  ELSE rail_fence_output(text, rail_pattern(Len(text), rails, 0, 1), 1)

\* The loop of _try_rail_fence from rail count `rails` up to limit - 1.  The
\* whitespace-stripped variant is tried in the same iteration after the raw
\* one, which `continue` leaves when the raw variant is a no-op.
RECURSIVE rail_fence_from(_, _, _)
rail_fence_from(text, rails, limit) ==
  IF rails >= limit THEN <<>>
  ELSE
    LET out_text == _rail_fence_decrypt(text, rails)
        stripped == clean_whitespace(text)
        out_stripped == _rail_fence_decrypt(stripped, rails)
        raw_result ==
          <<DecodeResult("railfence", encode_utf8(out_text),
                         "rails=" \o str(rails) \o ",stripspaces=no")>>
        stripped_result ==
          IF stripped # "" /\ stripped # text /\ out_stripped # stripped
          THEN <<DecodeResult("railfence", encode_utf8(out_stripped),
                              "rails=" \o str(rails) \o ",stripspaces=yes")>>
          ELSE <<>>
        this == IF out_text = text THEN <<>>
                ELSE raw_result \o stripped_result
    IN this \o rail_fence_from(text, rails + 1, limit)

_try_rail_fence(text, data) ==
  IF text = "" THEN <<>>
  ELSE rail_fence_from(text, 2, Min(7, Len(text)))

\* get_decoders(): the names of the registry, in registry order, restricted
\* to the probes this model runs in the chain search.
get_decoders == <<"rot13", "atbash", "reverse", "railfence">>

\* decoder.func(cur_text, cur_data) of the decoder named `name`.
func(name, text, data) ==
  CASE name = "rot13" -> _try_rot13(text, data)
    [] name = "atbash" -> _try_atbash(text, data)
    [] name = "reverse" -> _try_reverse(text, data)
    [] name = "railfence" -> _try_rail_fence(text, data)

(***************************************************************************)
(* cli.py: the chain search and the rank-and-filter stage                  *)
(***************************************************************************)

DEFAULT_CHAIN_DEPTH == 1
DEFAULT_MIN_SCORE == 250
DEFAULT_MIN_DELTA == 0
DEFAULT_TOP == 5
DEFAULT_MAX_PER_DECODER == 1

\* Bounds of the model.
MaxDepth == 2
MaxResults == 3
MaxTop == 2
MaxPerDecoder == 1
MaxPageSize == 1

\* The input texts of the model.
Texts == {"", "g", "the", "n{o}", "t n"}

\* The --decoder name lists of the model: none (all decoders), one decoder,
\* a decoder named twice among others, two decoders, and a name the
\* registry does not have.
NameLists ==
  {<<>>, <<"rot13">>, <<"rot13", "atbash", "rot13">>,
   <<"reverse", "railfence">>, <<"atbash", "rot47">>}

Range(s) == {s[i] : i \in 1..Len(s)}

\* ", ".join(names)
RECURSIVE join(_)
join(names) ==
  IF names = <<>> THEN ""
  ELSE IF Len(names) = 1 THEN names[1]
  ELSE names[1] \o ", " \o join(Tail(names))

DecodedItem(chain, data) == [chain |-> chain, data |-> data]

ScoredItem(item, output_text, abs_score, delta) ==
  [item |-> item, output_text |-> output_text,
   abs_score |-> abs_score, delta |-> delta]

\* A summary with the two totals in each other's place.
DecodeSummary_swapped(printed_, total_candidates_, total_filtered_, aborted_) ==
  [printed |-> printed_, total_candidates |-> total_filtered_,
   total_filtered |-> total_candidates_, aborted |-> aborted_]

DecodeSummary(printed_, total_candidates_, total_filtered_, aborted_) ==
  [printed |-> printed_, total_candidates |-> total_candidates_,
   total_filtered |-> total_filtered_, aborted |-> aborted_]

NoSummary == [printed |-> -1]

\* A label that leaves the note out.
_label_name_only(result) == result.name

_label(result) ==
  IF result.note # "" THEN result.name \o ":" \o result.note
  ELSE result.name

\* last.split(":", 1)[0]: the part of the label before its first colon.
RECURSIVE before_colon(_)
before_colon(label) ==
  IF label = "" \/ Char(label, 1) = ":" THEN ""
  ELSE Char(label, 1) \o before_colon(Rest(label))

\* A base name that keeps the note of the label.
_base_name_with_note(chain) ==
  IF chain = <<>> THEN ""
  ELSE chain[Len(chain)]

_base_name(chain) ==
  IF chain = <<>> THEN ""
  ELSE before_colon(chain[Len(chain)])

\* hashlib.sha256(output).digest(), taken as collision-free: the digest
\* stands for the bytes it was computed from.
sha256(data) == <<"sha256", data>>

\* _select_decoders: the names missing from the registry.
missing_decoders(all_decoders, names) ==
  SelectSeq(names, LAMBDA name : name \notin Range(all_decoders))

\* _select_decoders: the selected decoders when no name is missing.
_select_decoders(all_decoders, names) ==
  IF names = <<>> THEN all_decoders ELSE names

\* A cap test that lets one result too many through.
CapReached_late(count, cap) == count > cap

\* A cap test that never stops the search.
CapReached_never(count, cap) == FALSE

\* The test of line 248: the result count has reached the cap.
CapReached(count, cap) == count >= cap

\* A depth test that is off by one level.
DepthLeft_one_more(lvl, depth) == lvl < depth

\* The test of line 254: the candidate may be expanded at the next level.
DepthLeft(lvl, depth) == lvl + 1 < depth

VARIABLES
  text, decoder_names, chain_depth, max_results,
  pc, active,
  results, seen, queue, next_queue, level, qi, di, called, cur, ri, expanded,
  opts, deduped, scored_items, passed, capped, filtered,
  total_candidates, total_filtered,
  printed, aborted, paging, page_count, stdout,
  error, summary,
  call, ret

args == <<text, decoder_names, chain_depth, max_results>>
\* expanded is a history of the search: the bytes of every item handed to
\* the decoders so far, in order.
gather_vars == <<results, seen, queue, next_queue, level, qi, di, called, cur, ri,
                 expanded>>
rank_vars == <<opts, deduped, scored_items, passed, capped, filtered,
               total_candidates, total_filtered>>
print_vars == <<printed, aborted, paging, page_count, stdout>>
\* The state of _decode_text, and a direct call of one function of
\* decoders.py or utils.py with what it returned or raised.
pipeline_vars == <<args, pc, active, gather_vars, rank_vars, print_vars, error, summary>>
call_vars == <<call, ret>>
vars == <<pipeline_vars, call_vars>>

NoCall == [name |-> "", args |-> <<>>]
NoReturn == [raised |-> "", value |-> <<>>]
Returned(value) == [raised |-> "", value |-> value]
Raised(exception) == [raised |-> exception, value |-> <<>>]

DefaultOptions ==
  [min_score |-> DEFAULT_MIN_SCORE, min_delta |-> DEFAULT_MIN_DELTA,
   show_all |-> FALSE, top |-> DEFAULT_TOP, rank |-> "both",
   max_per_decoder |-> DEFAULT_MAX_PER_DECODER, page_size |-> 0,
   isatty |-> FALSE]

\* The state before _decode_text runs, for a search of one of the depths.
InitWith(depths) ==
  /\ text \in Texts
  /\ decoder_names \in NameLists
  /\ chain_depth \in depths
  /\ max_results \in 1..MaxResults
  /\ pc = "start"
  /\ active = <<>>
  /\ results = <<>> /\ seen = {} /\ queue = <<>> /\ next_queue = <<>>
  /\ level = 0 /\ qi = 1 /\ di = 1 /\ called = FALSE /\ cur = <<>> /\ ri = 1
  /\ expanded = <<>>
  /\ opts = DefaultOptions
  /\ deduped = <<>> /\ scored_items = <<>> /\ passed = <<>>
  /\ capped = <<>> /\ filtered = <<>>
  /\ total_candidates = 0 /\ total_filtered = 0
  /\ printed = 0 /\ aborted = FALSE /\ paging = FALSE /\ page_count = 0
  /\ stdout = <<>>
  /\ error = "" /\ summary = NoSummary
  /\ call = NoCall /\ ret = NoReturn

Init == InitWith(1..MaxDepth)

\* _decode_text lines 774-776 and _gather lines 238-240: select the decoders
\* (unknown names end the call with SystemExit) and enter the search with the
\* input as the only frontier item.
Start ==
  /\ pc = "start"
  /\ LET missing == missing_decoders(get_decoders, decoder_names)
     IN IF missing # <<>>
        THEN /\ pc' = "failed"
             /\ error' = "Unknown decoder(s): " \o join(missing)
             /\ UNCHANGED <<active, gather_vars>>
        ELSE /\ pc' = "gather"
             /\ active' = _select_decoders(get_decoders, decoder_names)
             /\ results' = <<>>
             /\ seen' = {}
             /\ queue' = <<[text |-> text, data |-> encode_utf8(text), chain |-> <<>>]>>
             /\ next_queue' = <<>>
             /\ level' = 0 /\ qi' = 1 /\ di' = 1
             /\ called' = FALSE /\ cur' = <<>> /\ ri' = 1
             /\ expanded' = <<>>
             /\ error' = error
  /\ UNCHANGED <<call_vars, args, rank_vars, print_vars, summary>>

\* _gather line 245: call the next decoder on the current frontier item.
GatherCall ==
  /\ pc = "gather" /\ ~called
  /\ level < chain_depth /\ qi <= Len(queue)
  /\ cur' = func(active[di], queue[qi].text, queue[qi].data)
  /\ ri' = 1
  /\ called' = TRUE
  /\ expanded' = IF di = 1 THEN Append(expanded, queue[qi].data) ELSE expanded
  /\ UNCHANGED <<call_vars, args, pc, active, results, seen, queue, next_queue, level,
                 qi, di, rank_vars, print_vars, error, summary>>

\* _gather lines 246-255: one iteration of the innermost loop body.
GatherConsume ==
  /\ pc = "gather" /\ called /\ ri <= Len(cur)
  /\ LET res == cur[ri]
         new_chain == Append(queue[qi].chain, _label(res))
         digest == sha256(res.output)
     IN /\ results' = Append(results, DecodedItem(new_chain, res.output))
        /\ IF CapReached(Len(results'), max_results)
           THEN /\ pc' = "rank"
                /\ UNCHANGED <<seen, next_queue, ri>>
           ELSE /\ pc' = pc
                /\ ri' = ri + 1
                /\ IF digest \in seen
                   THEN UNCHANGED <<seen, next_queue>>
                   ELSE /\ seen' = seen \cup {digest}
                        /\ next_queue' =
                             IF DepthLeft(level, chain_depth)
                             THEN Append(next_queue,
                                         [text |-> to_text(res.output),
                                          data |-> res.output,
                                          chain |-> new_chain])
                             ELSE next_queue
  /\ UNCHANGED <<call_vars, args, active, queue, level, qi, di, called, cur, expanded,
                 rank_vars, print_vars, error, summary>>

\* _gather lines 243-245: the results of the call are used up; go on to the
\* next decoder, or to the next frontier item after the last decoder.
GatherNextDecoder ==
  /\ pc = "gather" /\ called /\ ri > Len(cur)
  /\ called' = FALSE
  /\ cur' = <<>>
  /\ ri' = 1
  /\ IF di < Len(active)
     THEN di' = di + 1 /\ qi' = qi
     ELSE di' = 1 /\ qi' = qi + 1
  /\ UNCHANGED <<call_vars, args, pc, active, results, seen, queue, next_queue, level,
                 expanded, rank_vars, print_vars, error, summary>>

\* _gather lines 241-242 and 256: the frontier is used up; the next level
\* starts from next_queue.
GatherNextLevel ==
  /\ pc = "gather" /\ ~called
  /\ level < chain_depth /\ qi > Len(queue)
  /\ queue' = next_queue
  /\ next_queue' = <<>>
  /\ level' = level + 1
  /\ qi' = 1 /\ di' = 1
  /\ UNCHANGED <<call_vars, args, pc, active, results, seen, called, cur, ri, expanded,
                 rank_vars, print_vars, error, summary>>

\* _gather line 257: all levels done.
GatherReturn ==
  /\ pc = "gather" /\ ~called
  /\ level = chain_depth
  /\ pc' = "rank"
  /\ UNCHANGED <<call_vars, args, active, gather_vars, rank_vars, print_vars, error, summary>>

\* A dedup key that looks at the bytes only.
dedup_key_data_only(item) == item.data

\* _decode_text line 781: the key of the structural dedup.
dedup_key(item) == <<item.chain, item.data>>

\* _decode_text lines 778-785: the first item of every key, in order.
RECURSIVE dedupe(_, _)
dedupe(items, seen_keys) ==
  IF items = <<>> THEN <<>>
  ELSE LET key == dedup_key(Head(items))
       IN IF key \in seen_keys
          THEN dedupe(Tail(items), seen_keys)
          ELSE <<Head(items)>> \o dedupe(Tail(items), seen_keys \cup {key})

\* _decode_text lines 789-793
RECURSIVE score_items(_, _)
score_items(items, input_score) ==
  IF items = <<>> THEN <<>>
  ELSE LET item == Head(items)
           output_text == to_text(item.data)
           abs_score == english_score(strip(output_text))
           delta == abs_score - input_score
       IN <<ScoredItem(item, output_text, abs_score, delta)>>
            \o score_items(Tail(items), input_score)

_rank_key(abs_score, delta, mode) ==
  IF mode = "absolute" THEN <<abs_score, delta>>
  ELSE IF mode = "delta" THEN <<delta, abs_score>>
  ELSE LET combined == abs_score + Max(0, delta)
       IN <<combined, abs_score, delta>>

\* Python's order on tuples of equal length: a < b.
RECURSIVE tuple_less(_, _)
tuple_less(a, b) ==
  IF a = <<>> THEN FALSE
  ELSE IF Head(a) # Head(b) THEN Head(a) < Head(b)
  ELSE tuple_less(Tail(a), Tail(b))

scored_key(scored, mode) == _rank_key(scored.abs_score, scored.delta, mode)

\* An insertion for ascending order (reverse=True forgotten).
RECURSIVE insert_sorted_ascending(_, _, _)
insert_sorted_ascending(sorted, x, mode) ==
  IF sorted = <<>> THEN <<x>>
  ELSE IF tuple_less(scored_key(x, mode), scored_key(Head(sorted), mode))
  THEN <<x>> \o sorted
  ELSE <<Head(sorted)>> \o insert_sorted_ascending(Tail(sorted), x, mode)

\* list.sort(key=..., reverse=True) is stable: items come out by descending
\* key, items of equal key in their original order.  Insert x behind every
\* item whose key is not less than the key of x.
RECURSIVE insert_sorted(_, _, _)
insert_sorted(sorted, x, mode) ==
  IF sorted = <<>> THEN <<x>>
  ELSE IF tuple_less(scored_key(Head(sorted), mode), scored_key(x, mode))
  THEN <<x>> \o sorted
  ELSE <<Head(sorted)>> \o insert_sorted(Tail(sorted), x, mode)

RECURSIVE sort_from(_, _, _)
sort_from(items, sorted, mode) ==
  IF items = <<>> THEN sorted
  ELSE sort_from(Tail(items), insert_sorted(sorted, Head(items), mode), mode)

\* _decode_text lines 795-798
sort_scored(items, mode) == sort_from(items, <<>>, mode)

\* A score filter that forgets the improvement threshold.
passes_filter_abs_only(scored, min_score, min_delta) ==
  scored.abs_score >= min_score

\* _decode_text line 808: the condition of the score filter.
passes_filter(scored, min_score, min_delta) ==
  scored.abs_score >= min_score /\ scored.delta >= min_delta

\* _decode_text lines 805-809
score_filter(items, min_score, min_delta) ==
  SelectSeq(items, LAMBDA scored : passes_filter(scored, min_score, min_delta))

\* _decode_text lines 811-819: walk the items in order and keep an item
\* unless max_per_decoder kept items already have its base name.
RECURSIVE cap_from(_, _, _)
cap_from(items, kept, max_per_decoder) ==
  IF items = <<>> THEN kept
  ELSE LET scored == Head(items)
           base == _base_name(scored.item.chain)
           count == Cardinality({i \in 1..Len(kept) :
                       _base_name(kept[i].item.chain) = base})
       IN IF count >= max_per_decoder
          THEN cap_from(Tail(items), kept, max_per_decoder)
          ELSE cap_from(Tail(items), Append(kept, scored), max_per_decoder)

cap_per_decoder(items, max_per_decoder) ==
  IF max_per_decoder > 0 THEN cap_from(items, <<>>, max_per_decoder)
  ELSE items

\* A truncation that keeps one item too many.
truncate_one_more(items, top) == SubSeq(items, 1, Min(top + 1, Len(items)))

\* _decode_text line 821: filtered[:top], for top >= 1.
truncate(items, top) == SubSeq(items, 1, Min(top, Len(items)))

MinScores == {DEFAULT_MIN_SCORE, 500}
MinDeltas == {DEFAULT_MIN_DELTA}
RankModes == {"absolute", "delta", "both"}

\* The option values _decode_text is called with.  isatty is the state of
\* standard input, read by _print_results; it matters with a page size only,
\* and the input that is no terminal is drawn with the largest page size.
Options ==
  {o \in [min_score : MinScores, min_delta : MinDeltas, show_all : BOOLEAN,
          top : 1..MaxTop, rank : RankModes,
          max_per_decoder : 0..MaxPerDecoder,
          page_size : 0..MaxPageSize, isatty : BOOLEAN] :
     /\ o.page_size = 0 => o.isatty
     /\ ~o.isatty => o.page_size = MaxPageSize}

\* _decode_text lines 778-821 and _print_results lines 678-681: dedup, score,
\* sort, filter, cap, truncate, and the start of the presentation.  The
\* options are drawn one after the other so that each step of the pipeline
\* is computed once for the options it reads.
RankAndFilter ==
  /\ pc = "rank"
  /\ LET deduped_ == dedupe(results, {})
         input_score == english_score(strip(text))
         scored == score_items(deduped_, input_score)
     IN \E rank \in RankModes :
        LET sorted == sort_scored(scored, rank)
        IN \E min_score \in MinScores : \E min_delta \in MinDeltas :
           LET passed_ == score_filter(sorted, min_score, min_delta)
           IN \E max_per_decoder \in 0..MaxPerDecoder :
              LET capped_ == cap_per_decoder(passed_, max_per_decoder)
              IN \E show_all \in BOOLEAN : \E top \in 1..MaxTop :
                 \E page_size \in 0..MaxPageSize : \E isatty \in BOOLEAN :
                 LET o == [min_score |-> min_score, min_delta |-> min_delta,
                           show_all |-> show_all, top |-> top, rank |-> rank,
                           max_per_decoder |-> max_per_decoder,
                           page_size |-> page_size, isatty |-> isatty]
                 IN /\ o \in Options
                    /\ opts' = o
                    /\ deduped' = deduped_
                    /\ scored_items' = sorted
                    /\ total_candidates' = Len(sorted)
                    /\ IF show_all
                       THEN /\ passed' = sorted
                            /\ capped' = sorted
                            /\ filtered' = sorted
                            /\ total_filtered' = Len(sorted)
                       ELSE /\ passed' = passed_
                            /\ capped' = capped_
                            /\ total_filtered' = Len(capped_)
                            /\ filtered' = truncate(capped_, top)
                    /\ paging' = (page_size > 0 /\ isatty)
  /\ printed' = 0
  /\ aborted' = FALSE
  /\ page_count' = 0
  /\ stdout' = <<>>
  /\ pc' = "print"
  /\ UNCHANGED <<call_vars, args, active, gather_vars, error, summary>>

\* What the user answers at the page prompt: next page, all, quit.
PageActions == {"", "a", "q"}

\* _print_results lines 682-709: print one item (stdout holds the items
\* printed so far); after a full page ask the user how to go on.
PrintItem ==
  /\ pc = "print" /\ ~aborted /\ printed < Len(filtered)
  /\ printed' = printed + 1
  /\ stdout' = Append(stdout, filtered[printed + 1])
  /\ IF paging
     THEN IF page_count + 1 >= opts.page_size
          THEN \E action \in PageActions :
                 IF action \in {"a", "all"}
                 THEN paging' = FALSE /\ aborted' = aborted /\ page_count' = 0
                 ELSE IF action \in {"q", "quit"}
                 THEN paging' = paging /\ aborted' = TRUE
                      /\ page_count' = page_count + 1
                 ELSE paging' = paging /\ aborted' = aborted /\ page_count' = 0
          ELSE /\ page_count' = page_count + 1
               /\ UNCHANGED <<paging, aborted>>
     ELSE UNCHANGED <<paging, aborted, page_count>>
  /\ UNCHANGED <<call_vars, args, pc, active, gather_vars, rank_vars, error, summary>>

\* _print_results line 710 and _decode_text lines 826-833: nothing printed
\* ends the call with SystemExit, else the summary is returned.
Finish ==
  /\ pc = "print" /\ (aborted \/ printed = Len(filtered))
  /\ IF printed = 0
     THEN /\ pc' = "failed"
          /\ error' = "No results matched the current filters."
          /\ summary' = summary
     ELSE /\ pc' = "done"
          /\ summary' = DecodeSummary(printed, total_candidates,
                                      total_filtered, aborted)
          /\ error' = error
  /\ UNCHANGED <<call_vars, args, active, gather_vars, rank_vars, print_vars>>

Next ==
  \/ Start
  \/ GatherCall
  \/ GatherConsume
  \/ GatherNextDecoder
  \/ GatherNextLevel
  \/ GatherReturn
  \/ RankAndFilter
  \/ PrintItem
  \/ Finish

Spec == Init /\ [][Next]_vars

(***************************************************************************)
(* The chain search without its cap                                        *)
(***************************************************************************)

\* _gather lines 244-247 for one frontier item: the items its decoders
\* yield, decoders in order from index d, results in order.
RECURSIVE chain_results(_, _, _)
chain_results(chain, res, r) ==
  IF r > Len(res) THEN <<>>
  ELSE <<DecodedItem(Append(chain, _label(res[r])), res[r].output)>>
         \o chain_results(chain, res, r + 1)

RECURSIVE item_candidates(_, _, _)
item_candidates(entry, decoders, d) ==
  IF d > Len(decoders) THEN <<>>
  ELSE chain_results(entry.chain, func(decoders[d], entry.text, entry.data), 1)
         \o item_candidates(entry, decoders, d + 1)

\* _gather lines 243-247 for one level: the items of the whole frontier.
RECURSIVE level_candidates(_, _)
level_candidates(frontier, decoders) ==
  IF frontier = <<>> THEN <<>>
  ELSE item_candidates(Head(frontier), decoders, 1)
         \o level_candidates(Tail(frontier), decoders)

\* _gather lines 250-255 over the items of a level: the next frontier, made
\* of the items whose digest was not seen before.
RECURSIVE next_frontier(_, _)
next_frontier(items, seen_digests) ==
  IF items = <<>> THEN <<>>
  ELSE LET item == Head(items)
           digest == sha256(item.data)
       IN IF digest \in seen_digests
          THEN next_frontier(Tail(items), seen_digests)
          ELSE <<[text |-> to_text(item.data), data |-> item.data,
                  chain |-> item.chain]>>
                 \o next_frontier(Tail(items), seen_digests \cup {digest})

\* The list _gather builds when the cap of lines 248-249 never cuts it short:
\* level after level, every item of the level appended.
RECURSIVE gather_levels(_, _, _, _, _)
gather_levels(frontier, seen_digests, lvl, depth, decoders) ==
  IF lvl >= depth THEN <<>>
  ELSE LET items == level_candidates(frontier, decoders)
           digests == {sha256(items[i].data) : i \in 1..Len(items)}
           following == IF lvl + 1 < depth
                        THEN next_frontier(items, seen_digests)
                        ELSE <<>>
       IN items \o gather_levels(following, seen_digests \cup digests,
                                 lvl + 1, depth, decoders)

gather_uncapped(txt, decoders, depth) ==
  gather_levels(<<[text |-> txt, data |-> encode_utf8(txt), chain |-> <<>>]>>,
                {}, 0, depth, decoders)

(***************************************************************************)
(* Properties                                                              *)
(***************************************************************************)

Take(s, n) == SubSeq(s, 1, Min(n, Len(s)))

\* The first candidate of the first decoder that yields any for the input.
RECURSIVE first_candidate(_, _, _)
first_candidate(txt, decoders, d) ==
  IF d > Len(decoders) THEN <<>>
  ELSE LET res == func(decoders[d], txt, encode_utf8(txt))
       IN IF res # <<>>
          THEN <<DecodedItem(<<_label(res[1])>>, res[1].output)>>
          ELSE first_candidate(txt, decoders, d + 1)

\* C1: the search returns exactly the first min(max_results, T) items of the
\* uncapped list (T its length); while the search runs the result count is
\* below max_results, so it stops at the append that reaches the cap; with
\* depth 1 and cap 1 the one item is the first candidate of the first decoder
\* that yields any.
C1_CappedPrefix ==
  /\ pc = "gather" => Len(results) < max_results
  /\ pc = "rank" =>
       LET uncapped == gather_uncapped(text, active, chain_depth)
       IN /\ results = Take(uncapped, max_results)
          /\ Len(results) <= max_results
          /\ (chain_depth = 1 /\ max_results = 1) =>
               results = first_candidate(text, active, 1)

\* The cap cut the search short: more items were to come.
C1_Witness ==
  /\ pc = "rank"
  /\ Len(results) = max_results
  /\ Len(gather_uncapped(text, active, chain_depth)) > max_results

\* The ranking stage has run: its lists are those of the current call.
Ranked == pc = "print"

\* The part of a label before its first colon.
LabelBase(label) ==
  LET colons == {i \in 1..Len(label) : Char(label, i) = ":"}
      cut == IF colons = {} THEN Len(label) + 1
             ELSE CHOOSE i \in colons : \A j \in colons : i <= j
  IN SubSeq(label, 1, cut - 1)

\* The base transform name of a scored item: its last chain label without
\* the note.
ItemBase(scored) ==
  LET chain == scored.item.chain
  IN IF chain = <<>> THEN "" ELSE LabelBase(chain[Len(chain)])

Threshold(scored) ==
  scored.abs_score >= opts.min_score /\ scored.delta >= opts.min_delta

\* C2: with show-all off every flag-shaped candidate is among the items the
\* score filter lets through, whatever its scores.
C2_FlagNeverFiltered ==
  (Ranked /\ ~opts.show_all) =>
    \A i \in 1..Len(scored_items) :
      is_ctf_flag(scored_items[i].output_text) =>
        \E j \in 1..Len(passed) : passed[j] = scored_items[i]

\* C3: with show-all off every item of the final list that is not
\* flag-shaped meets both thresholds; with show-all on every deduplicated
\* candidate passes the filter step.
C3_FilterThresholds ==
  Ranked =>
    /\ ~opts.show_all =>
         \A i \in 1..Len(filtered) :
           ~is_ctf_flag(filtered[i].output_text) => Threshold(filtered[i])
    /\ opts.show_all =>
         \A i \in 1..Len(deduped) :
           \E j \in 1..Len(passed) : passed[j].item = deduped[i]

\* The filter removed a candidate and a plain item is in the final list.
C3_Witness ==
  /\ Ranked /\ ~opts.show_all
  /\ Len(passed) < Len(scored_items)
  /\ \E i \in 1..Len(filtered) : ~is_ctf_flag(filtered[i].output_text)

AtMostPerBase(items, n) ==
  \A i \in 1..Len(items) :
    Cardinality({j \in 1..Len(items) : ItemBase(items[j]) = ItemBase(items[i])}) <= n

\* C4 as stated: for every option combination with cap N > 0, show-all on or
\* off, the final list has at most N items per base transform name.
C4_CapAlways ==
  (Ranked /\ opts.max_per_decoder > 0) =>
    AtMostPerBase(filtered, opts.max_per_decoder)

\* C4 amended: with show-all off and cap N > 0 the final list has at most N
\* items per base transform name; the cap step drops nothing when N = 0 or
\* show-all is on.
C4_CapUnlessShowAll ==
  Ranked =>
    /\ (~opts.show_all /\ opts.max_per_decoder > 0) =>
         /\ AtMostPerBase(capped, opts.max_per_decoder)
         /\ AtMostPerBase(filtered, opts.max_per_decoder)
    /\ (opts.show_all \/ opts.max_per_decoder = 0) => capped = passed

\* The cap dropped an item that had passed the score filter.
C4_Witness ==
  /\ Ranked /\ ~opts.show_all /\ opts.max_per_decoder > 0
  /\ Len(capped) < Len(passed)

\* C5 as stated: for every option combination the final list has at most
\* `top` items and is the first `top` items of the list left by filter and
\* cap.
C5_TopAlways ==
  Ranked =>
    /\ Len(filtered) <= opts.top
    /\ filtered = Take(capped, opts.top)

\* C5 amended: with show-all off the final list has at most `top` items and
\* is the first `top` items of the list left by filter and cap; with show-all
\* on it is the whole sorted candidate list.
C5_TopUnlessShowAll ==
  Ranked =>
    /\ ~opts.show_all =>
         /\ Len(filtered) <= opts.top
         /\ filtered = Take(capped, opts.top)
    /\ opts.show_all => filtered = scored_items

\* The truncation dropped an item.
C5_Witness ==
  /\ Ranked /\ ~opts.show_all
  /\ Len(capped) > opts.top

\* The rank key of the claim for a scored item.
PairGE(a1, a2, b1, b2) == a1 > b1 \/ (a1 = b1 /\ a2 >= b2)

KeyGE(a, b, mode) ==
  IF mode = "absolute" THEN PairGE(a.abs_score, a.delta, b.abs_score, b.delta)
  ELSE IF mode = "delta" THEN PairGE(a.delta, a.abs_score, b.delta, b.abs_score)
  ELSE LET ca == a.abs_score + (IF a.delta > 0 THEN a.delta ELSE 0)
           cb == b.abs_score + (IF b.delta > 0 THEN b.delta ELSE 0)
       IN ca > cb \/ (ca = cb /\ PairGE(a.abs_score, a.delta, b.abs_score, b.delta))

\* The positions of the items of `sub` in `whole` go strictly upwards.
InOrderOf(sub, whole) ==
  \E f \in [1..Len(sub) -> 1..Len(whole)] :
    /\ \A i \in 1..Len(sub) : whole[f[i]] = sub[i]
    /\ \A i \in 1..Len(sub) : \A j \in 1..Len(sub) : i < j => f[i] < f[j]

\* C6: the final list is in descending rank-key order for the mode, and the
\* filter, cap and top-N steps leave the sorted order alone.
C6_DescendingOrder ==
  Ranked =>
    /\ \A i \in 1..Len(filtered) : \A j \in 1..Len(filtered) :
         i < j => KeyGE(filtered[i], filtered[j], opts.rank)
    /\ InOrderOf(filtered, scored_items)
    /\ InOrderOf(passed, scored_items)
    /\ InOrderOf(capped, passed)

\* The sort moved a later, better candidate in front of an earlier one.
C6_Witness ==
  /\ Ranked /\ Len(filtered) >= 2
  /\ ~KeyGE(filtered[2], filtered[1], opts.rank)
  /\ \E i \in 1..Len(deduped) : \E j \in 1..Len(deduped) :
       i < j /\ deduped[j] = filtered[1].item /\ deduped[i] = filtered[2].item

FirstIndex(items, x) == CHOOSE i \in 1..Len(items) :
                          items[i] = x /\ \A j \in 1..(i - 1) : items[j] # x

\* C7: after dedup no two items share their (chain, data) pair, every item of
\* the candidate list is still there (so items that differ in chain or in
\* data are all kept), and the kept items stand in the order of their first
\* occurrences.
C7_StructuralDedup ==
  Ranked =>
    /\ \A i \in 1..Len(deduped) : \A j \in 1..Len(deduped) :
         (deduped[i].chain = deduped[j].chain /\ deduped[i].data = deduped[j].data)
           => i = j
    /\ {deduped[i] : i \in 1..Len(deduped)} = {results[i] : i \in 1..Len(results)}
    /\ \A i \in 1..Len(deduped) : \A j \in 1..Len(deduped) :
         i < j => FirstIndex(results, deduped[i]) < FirstIndex(results, deduped[j])

\* A structural duplicate was removed while two items of equal data and
\* different chains were both kept.
C7_Witness ==
  /\ Ranked
  /\ Len(deduped) < Len(results)
  /\ \E i \in 1..Len(deduped) : \E j \in 1..Len(deduped) :
       deduped[i].data = deduped[j].data /\ deduped[i].chain # deduped[j].chain

\* The frontier entries of the candidates of chain length k among the first
\* n results: a candidate is one of them when k is below the depth and no
\* earlier result has its bytes.
RECURSIVE FrontierOf(_, _)
FrontierOf(k, n) ==
  IF n = 0 THEN <<>>
  ELSE LET item == results[n]
           first == \A j \in 1..(n - 1) : results[j].data # item.data
       IN IF Len(item.chain) = k /\ k < chain_depth /\ first
          THEN Append(FrontierOf(k, n - 1),
                      [text |-> to_text(item.data), data |-> item.data,
                       chain |-> item.chain])
          ELSE FrontierOf(k, n - 1)

\* C8: while the search runs, the frontier being built for the next level
\* holds exactly the candidates of this level (chain length level + 1) whose
\* level is below the depth and whose bytes no earlier candidate had, and the
\* frontier in use was built the same way; every candidate consumed from the
\* current probe call is in the result list whether or not it went to the
\* frontier.
C8_FrontierRule ==
  pc = "gather" =>
    /\ next_queue = FrontierOf(level + 1, Len(results))
    /\ (level >= 1 /\ level < chain_depth) => queue = FrontierOf(level, Len(results))
    /\ called =>
         /\ Len(results) >= ri - 1
         /\ \A k \in 1..(ri - 1) :
              results[Len(results) - (ri - 1) + k] =
                DecodedItem(Append(queue[qi].chain, _label(cur[k])), cur[k].output)

\* A candidate went to the result list and not to the frontier because an
\* earlier candidate had the same bytes under another chain.
C8_Witness ==
  /\ pc = "gather" /\ level + 1 < chain_depth
  /\ next_queue # <<>>
  /\ \E i \in 1..Len(results) : \E j \in 1..Len(results) :
       /\ i < j
       /\ results[i].data = results[j].data
       /\ results[i].chain # results[j].chain
       /\ Len(results[j].chain) = level + 1

\* C9: a returned summary has total_candidates = the number of distinct
\* (chain, data) candidates, total_filtered = the number of items left by
\* filter and cap before truncation, printed = the number of items output,
\* printed <= total_filtered <= total_candidates, and with show-all off and
\* no abort printed = min(top, total_filtered).
C9_SummaryCounts ==
  pc = "done" =>
    /\ summary.total_candidates =
         Cardinality({<<results[i].chain, results[i].data>> : i \in 1..Len(results)})
    /\ summary.total_filtered = Len(capped)
    /\ summary.printed = Len(stdout)
    /\ summary.printed <= summary.total_filtered
    /\ summary.total_filtered <= summary.total_candidates
    /\ (~opts.show_all /\ ~summary.aborted) =>
         summary.printed = Min(opts.top, summary.total_filtered)

\* A summary whose three counts all differ.
C9_Witness ==
  /\ pc = "done" /\ ~opts.show_all /\ ~summary.aborted
  /\ summary.printed < summary.total_filtered
  /\ summary.total_filtered < summary.total_candidates

\* C10: the call fails exactly when nothing was printed, and a failure of a
\* search that found no candidate at all does not carry the signal given
\* when candidates existed and none passed the filters.
C10_NoResultsDistinct ==
  /\ pc = "done" => printed > 0
  /\ pc = "failed" =>
       /\ printed = 0
       /\ (active # <<>> /\ Len(results) = 0) =>
            error # "No results matched the current filters."

\* The failure of a call whose candidates were all filtered out.
C10_FilteredOut ==
  /\ pc = "failed"
  /\ Len(results) > 0
  /\ error = "No results matched the current filters."

(***************************************************************************)
(* Direct calls of single functions                                        *)
(***************************************************************************)

\* All strings of at most n characters drawn from chars.
RECURSIVE StringsUpTo(_, _)
StringsUpTo(chars, n) ==
  IF n = 0 THEN {""}
  ELSE LET shorter == StringsUpTo(chars, n - 1)
       IN shorter \cup {x \o c : x \in shorter, c \in chars}

\* No call made yet; _decode_text is not running.
CallInit ==
  /\ Init
  /\ text = "" /\ decoder_names = <<>> /\ chain_depth = 1 /\ max_results = 1

NotCalled == call = NoCall

(***************************************************************************)
(* english_score                                                           *)
(***************************************************************************)

MaxScoreLen == 3
ScoreChars == {"a", "e", "T", "h", " ", "1", "f", "!", REPLACEMENT}
ScoreTexts == StringsUpTo(ScoreChars, MaxScoreLen)
DeltaTexts == {"", "the", "a a", "111", "!!", "the world", "zzz", " e "}

\* english_score(text)
ScoreCall ==
  /\ NotCalled
  /\ \E t \in ScoreTexts :
       /\ call' = [name |-> "english_score", args |-> <<t>>]
       /\ ret' = Returned(english_score(t))
  /\ UNCHANGED pipeline_vars

\* _decode_text lines 787-792: the scores of one candidate output_text
\* against the input text.
ScoreCandidate ==
  /\ NotCalled
  /\ \E t \in DeltaTexts : \E output_text \in DeltaTexts :
       LET input_score == english_score(strip(t))
           abs_score == english_score(strip(output_text))
           delta == abs_score - input_score
       IN /\ call' = [name |-> "score_candidate", args |-> <<t, output_text>>]
          /\ ret' = Returned([abs_score |-> abs_score, delta |-> delta])
  /\ UNCHANGED pipeline_vars

ScoreNext == ScoreCall \/ ScoreCandidate

SpecScore == CallInit /\ [][ScoreNext]_vars

\* C11: english_score(t) lies in [0.0, 1.0] for every text, it is 0.0 for
\* the empty text, and the delta of a candidate against the input lies in
\* [-1.0, 1.0].
C11_ScoreRange ==
  /\ call.name = "english_score" =>
       /\ ret.raised = ""
       /\ ret.value >= 0 /\ ret.value <= Scale
       /\ call.args[1] = "" => ret.value = 0
  /\ call.name = "score_candidate" =>
       /\ ret.value.delta >= -Scale /\ ret.value.delta <= Scale
       /\ ret.value.abs_score >= 0 /\ ret.value.abs_score <= Scale

\* A candidate that scores above zero and below its input.
C11_Witness ==
  /\ call.name = "score_candidate"
  /\ ret.value.abs_score > 0
  /\ ret.value.delta < 0

(***************************************************************************)
(* decoders.py: keyed ciphers.  A function that can raise returns          *)
(* Returned(value) or Raised(exception).                                   *)
(***************************************************************************)

\* str.upper() on ASCII.
RECURSIVE upper(_)
upper(txt) ==
  IF txt = "" THEN ""
  ELSE LET c == Char(txt, 1)
       IN (IF islower(c) THEN chr(ord(c) - 32) ELSE c) \o upper(Rest(txt))

\* "".join(ch for ch in text.upper() if "A" <= ch <= "Z")
RECURSIVE upper_letters(_)
upper_letters(txt) ==
  IF txt = "" THEN ""
  ELSE LET c == upper(Char(txt, 1))
       IN (IF isupper(c) THEN c ELSE "") \o upper_letters(Rest(txt))

\* str.replace(old, new) for one-character old and new.
RECURSIVE replace(_, _, _)
replace(txt, old, new) ==
  IF txt = "" THEN ""
  ELSE (IF Char(txt, 1) = old THEN new ELSE Char(txt, 1))
         \o replace(Rest(txt), old, new)

_clean_key_alpha(key) ==
  LET cleaned == upper_letters(key)
  IN IF cleaned = "" THEN Raised("ValueError") ELSE Returned(cleaned)

_alpha_index(ch) == ord(ch) - ord("A")

_shift_alpha_char(ch, shift) ==
  IF islower(ch) THEN chr(((ord(ch) - ord("a") + shift) % 26) + ord("a"))
  ELSE IF isupper(ch) THEN chr(((ord(ch) - ord("A") + shift) % 26) + ord("A"))
  ELSE ch

(***************************************************************************)
(* Hill cipher                                                             *)
(***************************************************************************)

_hill_matrix_from_key(key) ==
  LET key_clean == _clean_key_alpha(key)
  IN IF key_clean.raised # "" THEN key_clean
     ELSE IF Len(key_clean.value) # 4 THEN Raised("ValueError")
     ELSE LET values == [i \in 1..4 |-> _alpha_index(Char(key_clean.value, i))]
          IN Returned(<<<<values[1], values[2]>>, <<values[3], values[4]>>>>)

\* An inverse that is always 1.
_modinv_one(value, modulus) == Returned(1)

\* _modinv: the first i in 1..modulus-1 with value * i = 1, else ValueError.
_modinv(value, modulus) ==
  LET v == value % modulus
      found == {i \in 1..(modulus - 1) : (v * i) % modulus = 1}
  IN IF found = {} THEN Raised("ValueError")
     ELSE Returned(CHOOSE i \in found : \A j \in found : i <= j)

\* The loop of hill_encrypt and hill_decrypt: each pair of letters of raw
\* multiplied by the matrix m.
RECURSIVE hill_pairs(_, _)
hill_pairs(raw, m) ==
  IF raw = "" THEN ""
  ELSE LET a == _alpha_index(Char(raw, 1))
           b == _alpha_index(Char(raw, 2))
           c0 == (m[1][1] * a + m[1][2] * b) % 26
           c1 == (m[2][1] * a + m[2][2] * b) % 26
       IN chr(c0 + ord("A")) \o chr(c1 + ord("A"))
            \o hill_pairs(SubSeq(raw, 3, Len(raw)), m)

\* raw padded with "X" to an even length.
pad_even(raw) == IF Len(raw) % 2 # 0 THEN raw \o "X" ELSE raw

hill_encrypt(plain, key) ==
  LET matrix == _hill_matrix_from_key(key)
  IN IF matrix.raised # "" THEN matrix
     ELSE Returned(hill_pairs(pad_even(upper_letters(plain)), matrix.value))

hill_decrypt(cipher, key) ==
  LET matrix == _hill_matrix_from_key(key)
  IN IF matrix.raised # "" THEN matrix
     ELSE LET m == matrix.value
              det == (m[1][1] * m[2][2] - m[1][2] * m[2][1]) % 26
              inv_det == _modinv(det, 26)
          IN IF inv_det.raised # "" THEN inv_det
             ELSE LET d == inv_det.value
                      inv == <<<<(m[2][2] * d) % 26, ((0 - m[1][2]) * d) % 26>>,
                               <<((0 - m[2][1]) * d) % 26, (m[1][1] * d) % 26>>>>
                  IN Returned(hill_pairs(pad_even(upper_letters(cipher)), inv))

\* encode_hill
encode_hill(plain, key) == hill_encrypt(plain, key)

MaxHillLen == 3
HillChars == {"A", "N", "X", "b", " "}
HillTexts == StringsUpTo(HillChars, MaxHillLen)
HillKeys == {"GYBN", "HILL", "hill", "ABCD", "DDCF", "AAAA", "GYB", "HILLS", "", "12"}

HillEncode ==
  /\ NotCalled
  /\ \E p \in HillTexts : \E key \in HillKeys :
       /\ call' = [name |-> "encode_hill", args |-> <<p, key>>]
       /\ ret' = encode_hill(p, key)
  /\ UNCHANGED pipeline_vars

HillDecrypt ==
  /\ NotCalled
  /\ \E c \in HillTexts : \E key \in HillKeys :
       /\ call' = [name |-> "hill_decrypt", args |-> <<c, key>>]
       /\ ret' = hill_decrypt(c, key)
  /\ UNCHANGED pipeline_vars

\* hill_decrypt(hill_encrypt(p, key), key)
HillRoundTrip ==
  /\ NotCalled
  /\ \E p \in HillTexts : \E key \in HillKeys :
       LET encrypted == hill_encrypt(p, key)
       IN /\ call' = [name |-> "hill_round_trip", args |-> <<p, key>>]
          /\ ret' = IF encrypted.raised # "" THEN encrypted
                    ELSE hill_decrypt(encrypted.value, key)
  /\ UNCHANGED pipeline_vars

HillNext == HillEncode \/ HillDecrypt \/ HillRoundTrip

SpecHill == CallInit /\ [][HillNext]_vars

\* A text of uppercase letters A-Z only, and of even length.
UpperOnly(t) == \A i \in 1..Len(t) : isupper(Char(t, i))
EvenUpper(t) == UpperOnly(t) /\ Len(t) % 2 = 0

\* The determinant of the key's matrix has an inverse modulo 26: it is odd
\* and no multiple of 13.
KeyLetters(key) == SelectSeq([i \in 1..Len(key) |-> upper(Char(key, i))],
                             LAMBDA c : isupper(c))
KeyDet(key) ==
  LET k == [i \in 1..4 |-> ord(KeyLetters(key)[i]) - 65]
  IN (k[1] * k[4] - k[2] * k[3]) % 26
Invertible(key) ==
  Len(KeyLetters(key)) = 4 /\ KeyDet(key) % 2 = 1 /\ KeyDet(key) % 13 # 0

\* C12 (as stated): with the key "GYBN", decrypt after encrypt restores
\* every even-length plaintext over A-Z.
C12_GYBNRoundTrip ==
  (call.name = "hill_round_trip" /\ call.args[2] = "GYBN" /\ EvenUpper(call.args[1]))
    => ret = Returned(call.args[1])

\* C12 (amended): decrypt after encrypt restores every even-length plaintext
\* over A-Z for every 4-letter key whose matrix is invertible modulo 26; the
\* matrix of "GYBN" has determinant 2, encryption with it succeeds and
\* decryption raises ValueError.
C12_InvertibleRoundTrip ==
  /\ (call.name = "hill_round_trip" /\ Invertible(call.args[2])
        /\ EvenUpper(call.args[1]))
       => ret = Returned(call.args[1])
  /\ (call.name = "hill_round_trip" /\ call.args[2] = "GYBN")
       => ret = Raised("ValueError")
  /\ (call.name = "encode_hill" /\ call.args[2] = "GYBN") => ret.raised = ""

\* A two-letter plaintext restored under the invertible key "HILL".
C12_Witness ==
  /\ call.name = "hill_round_trip"
  /\ call.args[2] = "HILL"
  /\ Len(call.args[1]) = 2 /\ UpperOnly(call.args[1])
  /\ ret = Returned(call.args[1])

\* C15: encoding with the Hill cipher raises ValueError and gives no
\* ciphertext whenever the key has not exactly 4 letters or its matrix is
\* not invertible modulo 26.
C15_HillEncodeRejects ==
  (call.name = "encode_hill" /\ ~Invertible(call.args[2]))
    => ret = Raised("ValueError")

\* Encoding accepted a 4-letter key whose matrix has no inverse.
C15_Accepted ==
  /\ call.name = "encode_hill"
  /\ Len(KeyLetters(call.args[2])) = 4 /\ ~Invertible(call.args[2])
  /\ ret.raised = "" /\ ret.value # ""

(***************************************************************************)
(* Playfair cipher                                                         *)
(***************************************************************************)

\* The letters of txt in order, each kept at its first occurrence only.
RECURSIVE first_occurrences(_, _)
first_occurrences(txt, seen_chars) ==
  IF txt = "" THEN ""
  ELSE LET c == Char(txt, 1)
       IN IF c \in seen_chars THEN first_occurrences(Rest(txt), seen_chars)
          ELSE c \o first_occurrences(Rest(txt), seen_chars \cup {c})

\* _playfair_square: the 25 letters of the square row after row (a string
\* of length 25; row r, column c is character 5 * r + c + 1).
_playfair_square(key) ==
  LET key_clean == _clean_key_alpha(key)
  IN IF key_clean.raised # "" THEN key_clean
     ELSE Returned(first_occurrences(
            replace(key_clean.value, "J", "I") \o "ABCDEFGHIKLMNOPQRSTUVWXYZ", {}))

\* _playfair_positions: 5 * r + c of a letter of the square; looking up a
\* missing letter is a KeyError.
HasPosition(square, ch) == \E i \in 1..Len(square) : Char(square, i) = ch
_playfair_positions(square, ch) ==
  (CHOOSE i \in 1..Len(square) : Char(square, i) = ch) - 1

RECURSIVE digraphs_from(_)
digraphs_from(raw) ==
  IF raw = "" THEN <<>>
  ELSE LET a == Char(raw, 1)
           b == IF Len(raw) > 1 THEN Char(raw, 2) ELSE "X"
       IN IF a = b
          THEN <<a \o "X">> \o digraphs_from(Rest(raw))
          ELSE <<a \o b>> \o digraphs_from(SubSeq(raw, 3, Len(raw)))

_playfair_digraphs(txt) == digraphs_from(replace(upper_letters(txt), "J", "I"))

\* The body of the loops of playfair_encrypt (step 1) and playfair_decrypt
\* (step -1) for one pair of letters.
playfair_pair(square, a, b, step) ==
  LET pa == _playfair_positions(square, a)
      pb == _playfair_positions(square, b)
      ra == pa \div 5
      ca == pa % 5
      rb == pb \div 5
      cb == pb % 5
      at(r, c) == Char(square, 5 * r + c + 1)
  IN IF ra = rb THEN at(ra, (ca + step) % 5) \o at(rb, (cb + step) % 5)
     ELSE IF ca = cb THEN at((ra + step) % 5, ca) \o at((rb + step) % 5, cb)
     ELSE at(ra, cb) \o at(rb, ca)

RECURSIVE playfair_pairs(_, _, _)
playfair_pairs(square, pairs, step) ==
  IF pairs = <<>> THEN ""
  ELSE playfair_pair(square, Char(pairs[1], 1), Char(pairs[1], 2), step)
         \o playfair_pairs(square, Tail(pairs), step)

\* raw cut into pairs of letters (raw has even length).
RECURSIVE pairs_of(_)
pairs_of(raw) ==
  IF raw = "" THEN <<>>
  ELSE <<SubSeq(raw, 1, 2)>> \o pairs_of(SubSeq(raw, 3, Len(raw)))

playfair_encrypt(plain, key) ==
  LET square == _playfair_square(key)
  IN IF square.raised # "" THEN square
     ELSE Returned(playfair_pairs(square.value, _playfair_digraphs(plain), 1))

\* A decryption that steps through the square in the direction of the
\* encryption.
playfair_decrypt_forward(cipher, key) == playfair_encrypt(cipher, key)

playfair_decrypt(cipher, key) ==
  LET square == _playfair_square(key)
  IN IF square.raised # "" THEN square
     ELSE LET raw == pad_even(upper_letters(cipher))
          IN IF \E i \in 1..Len(raw) : ~HasPosition(square.value, Char(raw, i))
             THEN Raised("KeyError")
             ELSE Returned(playfair_pairs(square.value, pairs_of(raw), -1))

MaxPlayfairLen == 3
PlayfairChars == {"A", "B", "X", "I", "J", "g", " "}
PlayfairTexts == StringsUpTo(PlayfairChars, MaxPlayfairLen)
PlayfairKeys == {"KEY", "a", "JIG", "play fair", ""}

PlayfairEncrypt ==
  /\ NotCalled
  /\ \E p \in PlayfairTexts : \E key \in PlayfairKeys :
       /\ call' = [name |-> "playfair_encrypt", args |-> <<p, key>>]
       /\ ret' = playfair_encrypt(p, key)
  /\ UNCHANGED pipeline_vars

PlayfairDecrypt ==
  /\ NotCalled
  /\ \E c \in PlayfairTexts : \E key \in PlayfairKeys :
       /\ call' = [name |-> "playfair_decrypt", args |-> <<c, key>>]
       /\ ret' = playfair_decrypt(c, key)
  /\ UNCHANGED pipeline_vars

\* playfair_decrypt(playfair_encrypt(p, key), key)
PlayfairRoundTrip ==
  /\ NotCalled
  /\ \E p \in PlayfairTexts : \E key \in PlayfairKeys :
       LET encrypted == playfair_encrypt(p, key)
       IN /\ call' = [name |-> "playfair_round_trip", args |-> <<p, key>>]
          /\ ret' = IF encrypted.raised # "" THEN encrypted
                    ELSE playfair_decrypt(encrypted.value, key)
  /\ UNCHANGED pipeline_vars

PlayfairNext == PlayfairEncrypt \/ PlayfairDecrypt \/ PlayfairRoundTrip

SpecPlayfair == CallInit /\ [][PlayfairNext]_vars

HasLetter(key) == \E i \in 1..Len(key) : isalpha(Char(key, i))

\* A plaintext over uppercase A-Z with J already folded to I.
FoldedUpper(t) == UpperOnly(t) /\ \A i \in 1..Len(t) : Char(t, i) # "J"

\* No filler is needed: the length is even and no pair of letters at the
\* positions 2i-1, 2i has two equal letters.
NoFiller(t) ==
  /\ Len(t) % 2 = 0
  /\ \A i \in 1..(Len(t) \div 2) : Char(t, 2 * i - 1) # Char(t, 2 * i)

\* C13 (as stated): decrypt after encrypt restores every plaintext over A-Z
\* without J, doubled letters and odd lengths included.
C13_RoundTripAlways ==
  (call.name = "playfair_round_trip" /\ HasLetter(call.args[2])
     /\ FoldedUpper(call.args[1]))
    => ret = Returned(call.args[1])

\* C13 (amended): decrypt after encrypt never raises on such a plaintext and
\* restores it exactly when it needs no filler (even length, no pair of
\* equal letters); otherwise the result is longer than the plaintext or has
\* an X in place of a doubled letter's partner, and its length is even.
C13_RoundTripWithoutFiller ==
  (call.name = "playfair_round_trip" /\ HasLetter(call.args[2])
     /\ FoldedUpper(call.args[1]))
    => /\ ret.raised = ""
       /\ (ret.value = call.args[1]) <=> NoFiller(call.args[1])
       /\ Len(ret.value) % 2 = 0
       /\ Len(ret.value) >= Len(call.args[1])

\* A pair of two letters of one row of the square restored.
C13_Witness ==
  /\ call.name = "playfair_round_trip"
  /\ call.args = <<"AB", "KEY">>
  /\ ret = Returned("AB")

(***************************************************************************)
(* Vigenere, Beaufort, variant Beaufort, autokey, keyword substitution,    *)
(* columnar transposition                                                  *)
(***************************************************************************)

\* The loop of _vigenere_key_stream from the idx-th letter on.
RECURSIVE key_stream_from(_, _, _)
key_stream_from(txt, shifts, idx) ==
  IF txt = "" THEN <<>>
  ELSE IF isalpha(Char(txt, 1))
  THEN <<shifts[(idx % Len(shifts)) + 1]>> \o key_stream_from(Rest(txt), shifts, idx + 1)
  ELSE <<0>> \o key_stream_from(Rest(txt), shifts, idx)

\* _vigenere_key_stream for a cleaned key.
_vigenere_key_stream(txt, key_clean) ==
  key_stream_from(txt, [i \in 1..Len(key_clean) |-> _alpha_index(Char(key_clean, i))], 0)

\* The letter of the alphabet of ch (upper or lower case) with index n % 26.
letter_at(ch, n) ==
  LET base == IF isupper(ch) THEN ord("A") ELSE ord("a")
  IN chr((n % 26) + base)
letter_index(ch) == ord(ch) - (IF isupper(ch) THEN ord("A") ELSE ord("a"))

\* The body of the loop of each of the four stream ciphers for a letter.
stream_char(cipher, ch, shift) ==
  CASE cipher = "vigenere_encrypt" -> _shift_alpha_char(ch, shift)
    [] cipher = "vigenere_decrypt" -> _shift_alpha_char(ch, 0 - shift)
    [] cipher = "beaufort_encrypt" -> letter_at(ch, shift - letter_index(ch))
    [] cipher = "variant_beaufort_encrypt" -> letter_at(ch, letter_index(ch) - shift)
    [] cipher = "variant_beaufort_decrypt" -> letter_at(ch, shift + letter_index(ch))

\* for ch, shift in zip(text, shifts): letters mapped, the rest copied.
RECURSIVE zip_stream(_, _, _)
zip_stream(cipher, txt, shifts) ==
  IF txt = "" THEN ""
  ELSE LET ch == Char(txt, 1)
       IN (IF isalpha(ch) THEN stream_char(cipher, ch, Head(shifts)) ELSE ch)
            \o zip_stream(cipher, Rest(txt), Tail(shifts))

stream_cipher(cipher, txt, key) ==
  LET key_clean == _clean_key_alpha(key)
  IN IF key_clean.raised # "" THEN key_clean
     ELSE Returned(zip_stream(cipher, txt, _vigenere_key_stream(txt, key_clean.value)))

vigenere_encrypt(txt, key) == stream_cipher("vigenere_encrypt", txt, key)
vigenere_decrypt(txt, key) == stream_cipher("vigenere_decrypt", txt, key)
beaufort_encrypt(txt, key) == stream_cipher("beaufort_encrypt", txt, key)
beaufort_decrypt(txt, key) == beaufort_encrypt(txt, key)
variant_beaufort_encrypt(txt, key) == stream_cipher("variant_beaufort_encrypt", txt, key)
variant_beaufort_decrypt(txt, key) == stream_cipher("variant_beaufort_decrypt", txt, key)

\* The loops of autokey_encrypt (direction 1) and autokey_decrypt
\* (direction -1): the key stream is a queue that the plaintext letters
\* join.
RECURSIVE autokey_from(_, _, _)
autokey_from(txt, key_stream, direction) ==
  IF txt = "" THEN ""
  ELSE LET ch == Char(txt, 1)
       IN IF isalpha(ch)
          THEN LET shift == _alpha_index(Char(key_stream, 1))
                   out == _shift_alpha_char(ch, direction * shift)
                   plain == IF direction = 1 THEN ch ELSE out
               IN out \o autokey_from(Rest(txt), Rest(key_stream) \o upper(plain),
                                      direction)
          ELSE ch \o autokey_from(Rest(txt), key_stream, direction)

autokey_encrypt(txt, key) ==
  LET key_clean == _clean_key_alpha(key)
  IN IF key_clean.raised # "" THEN key_clean
     ELSE Returned(autokey_from(txt, key_clean.value, 1))

\* A decryption that feeds the ciphertext letters to the key stream.
autokey_decrypt_cipher_feed(txt, key) ==
  LET key_clean == _clean_key_alpha(key)
  IN IF key_clean.raised # "" THEN key_clean
     ELSE LET stream == key_clean.value \o upper_letters(txt)
          IN Returned(zip_stream("vigenere_decrypt", txt,
               key_stream_from(txt, [i \in 1..Len(stream) |->
                                       _alpha_index(Char(stream, i))], 0)))

autokey_decrypt(txt, key) ==
  LET key_clean == _clean_key_alpha(key)
  IN IF key_clean.raised # "" THEN key_clean
     ELSE Returned(autokey_from(txt, key_clean.value, -1))

\* The substitution alphabet: the key's letters, then the rest of A-Z.
keyword_alphabet(key_clean) == first_occurrences(key_clean \o UPPER, {})

index_of(alphabet, ch) == CHOOSE i \in 1..Len(alphabet) : Char(alphabet, i) = ch

\* The loop of keyword_substitution_encrypt (from A-Z to the alphabet) and
\* of keyword_substitution_decrypt (from the alphabet to A-Z).
RECURSIVE substitute(_, _, _)
substitute(txt, from, to) ==
  IF txt = "" THEN ""
  ELSE LET ch == Char(txt, 1)
       IN (IF isupper(ch) THEN Char(to, index_of(from, ch))
           ELSE IF islower(ch) THEN lower(Char(to, index_of(from, upper(ch))))
           ELSE ch) \o substitute(Rest(txt), from, to)

keyword_substitution_encrypt(txt, key) ==
  LET key_clean == _clean_key_alpha(key)
  IN IF key_clean.raised # "" THEN key_clean
     ELSE Returned(substitute(txt, UPPER, keyword_alphabet(key_clean.value)))

keyword_substitution_decrypt(txt, key) ==
  LET key_clean == _clean_key_alpha(key)
  IN IF key_clean.raised # "" THEN key_clean
     ELSE Returned(substitute(txt, keyword_alphabet(key_clean.value), UPPER))

\* _columnar_key_order: the 0-based column indices sorted by (letter,
\* index).
_columnar_key_order(key_clean) ==
  LET n == Len(key_clean)
      before(j, i) ==
        \/ ord(Char(key_clean, j + 1)) < ord(Char(key_clean, i + 1))
        \/ (Char(key_clean, j + 1) = Char(key_clean, i + 1) /\ j < i)
      rank(i) == Cardinality({j \in 0..(n - 1) : before(j, i)})
  IN [k \in 1..n |-> CHOOSE i \in 0..(n - 1) : rank(i) = k - 1]

\* The characters of column col of the grid of txt, from row on.
RECURSIVE column_from(_, _, _, _)
column_from(txt, cols, col, row) ==
  IF row * cols + col >= Len(txt) THEN ""
  ELSE Char(txt, row * cols + col + 1) \o column_from(txt, cols, col, row + 1)

RECURSIVE columns_in_order(_, _, _)
columns_in_order(txt, cols, order) ==
  IF order = <<>> THEN ""
  ELSE column_from(txt, cols, Head(order), 0)
         \o columns_in_order(txt, cols, Tail(order))

columnar_encrypt(txt, key) ==
  LET key_clean == _clean_key_alpha(key)
  IN IF key_clean.raised # "" THEN key_clean
     ELSE LET order == _columnar_key_order(key_clean.value)
          IN Returned(columns_in_order(txt, Len(order), order))

\* columnar_decrypt lines 527-532: cut the text into the columns in key
\* order; columns[col + 1] is the text of column col.
RECURSIVE cut_columns(_, _, _, _, _)
cut_columns(txt, order, col_lengths, idx, columns) ==
  IF order = <<>> THEN columns
  ELSE LET col == Head(order)
           length == col_lengths[col + 1]
       IN cut_columns(txt, Tail(order), col_lengths, idx + length,
                      [columns EXCEPT ![col + 1] = SubSeq(txt, idx + 1, idx + length)])

\* columnar_decrypt lines 533-537: read the columns row after row.
RECURSIVE read_rows(_, _, _, _)
read_rows(columns, rows, row, col) ==
  IF row >= rows THEN ""
  ELSE IF col >= Len(columns) THEN read_rows(columns, rows, row + 1, 0)
  ELSE (IF row < Len(columns[col + 1]) THEN Char(columns[col + 1], row + 1) ELSE "")
         \o read_rows(columns, rows, row, col + 1)

columnar_decrypt(txt, key) ==
  LET key_clean == _clean_key_alpha(key)
  IN IF key_clean.raised # "" THEN key_clean
     ELSE LET order == _columnar_key_order(key_clean.value)
              cols == Len(order)
              rows == (Len(txt) + cols - 1) \div cols
              remainder == IF Len(txt) % cols = 0 THEN cols ELSE Len(txt) % cols
              col_lengths == [i \in 1..cols |-> IF i - 1 < remainder THEN rows ELSE rows - 1]
              columns == cut_columns(txt, order, col_lengths, 0, [i \in 1..cols |-> ""])
          IN Returned(read_rows(columns, rows, 0, 0))

\* encode_vigenere ... encode_columnar (decoders.py lines 1146-1167): the
\* encoder of each cipher name.
encrypt_with(cipher, txt, key) ==
  CASE cipher = "vigenere" -> vigenere_encrypt(txt, key)
    [] cipher = "beaufort" -> beaufort_encrypt(txt, key)
    [] cipher = "variant" -> variant_beaufort_encrypt(txt, key)
    [] cipher = "autokey" -> autokey_encrypt(txt, key)
    [] cipher = "keyword" -> keyword_substitution_encrypt(txt, key)
    [] cipher = "columnar" -> columnar_encrypt(txt, key)

\* The decryption of each of these cipher names.
decrypt_with(cipher, txt, key) ==
  CASE cipher = "vigenere" -> vigenere_decrypt(txt, key)
    [] cipher = "beaufort" -> beaufort_decrypt(txt, key)
    [] cipher = "variant" -> variant_beaufort_decrypt(txt, key)
    [] cipher = "autokey" -> autokey_decrypt(txt, key)
    [] cipher = "keyword" -> keyword_substitution_decrypt(txt, key)
    [] cipher = "columnar" -> columnar_decrypt(txt, key)

LetterCiphers == {"vigenere", "beaufort", "variant", "autokey", "keyword"}
KeyCiphers == LetterCiphers \cup {"columnar"}

MaxKeyedLen == 4
KeyedChars == {"a", "Z", "m", " "}
KeyedTexts == StringsUpTo(KeyedChars, MaxKeyedLen)
KeyedKeys == {"K", "zA", "bab", "k-Z", ""}

CipherEncrypt ==
  /\ NotCalled
  /\ \E cipher \in KeyCiphers : \E p \in KeyedTexts : \E key \in KeyedKeys :
       /\ call' = [name |-> "encrypt", args |-> <<cipher, p, key>>]
       /\ ret' = encrypt_with(cipher, p, key)
  /\ UNCHANGED pipeline_vars

\* decrypt(encrypt(p, key), key)
CipherRoundTrip ==
  /\ NotCalled
  /\ \E cipher \in KeyCiphers : \E p \in KeyedTexts : \E key \in KeyedKeys :
       LET encrypted == encrypt_with(cipher, p, key)
       IN /\ call' = [name |-> "round_trip", args |-> <<cipher, p, key>>]
          /\ ret' = IF encrypted.raised # "" THEN encrypted
                    ELSE decrypt_with(cipher, encrypted.value, key)
  /\ UNCHANGED pipeline_vars

CipherNext == CipherEncrypt \/ CipherRoundTrip

SpecCiphers == CallInit /\ [][CipherNext]_vars

\* The ASCII letters of t, in order.
RECURSIVE LettersOf(_)
LettersOf(t) ==
  IF t = "" THEN ""
  ELSE (IF isalpha(Char(t, 1)) THEN Char(t, 1) ELSE "") \o LettersOf(Rest(t))

\* C14: for the six ciphers, every key with a letter and every plaintext of
\* ASCII letters and spaces, decrypt after encrypt restores the plaintext;
\* in the four stream ciphers and keyword substitution the ciphertext has
\* the non-letters of the plaintext at their places, and its letters are
\* the encryption of the plaintext's letters alone (a non-letter uses up no
\* key).
C14_RoundTrips ==
  /\ (call.name = "round_trip" /\ HasLetter(call.args[3]))
       => ret = Returned(call.args[2])
  /\ (call.name = "encrypt" /\ HasLetter(call.args[3])
        /\ call.args[1] \in LetterCiphers)
       => LET p == call.args[2]
          IN /\ ret.raised = ""
             /\ Len(ret.value) = Len(p)
             /\ \A i \in 1..Len(p) :
                  IF isalpha(Char(p, i)) THEN isalpha(Char(ret.value, i))
                  ELSE Char(ret.value, i) = Char(p, i)
             /\ Returned(LettersOf(ret.value))
                  = encrypt_with(call.args[1], LettersOf(p), call.args[3])

\* An autokey plaintext with a space between letters, longer than the key,
\* restored.
C14_Witness ==
  /\ call.name = "round_trip"
  /\ call.args = <<"autokey", "a Zm", "K">>
  /\ ret = Returned("a Zm")

(***************************************************************************)
(* ADFGX, ADFGVX and the keyed decryption of every cipher name             *)
(***************************************************************************)

\* The letter of the square (a string, row after row) with the coordinate
\* digraph, or "" where reverse.get(digraph) is None.
reverse_square(square, symbols, digraph) ==
  LET n == Len(symbols)
      hits == {i \in 1..Len(square) :
                 Char(symbols, ((i - 1) \div n) + 1) \o Char(symbols, ((i - 1) % n) + 1)
                   = digraph}
  IN IF hits = {} THEN "" ELSE Char(square, CHOOSE i \in hits : TRUE)

\* _adfgx_square: the 25 letters in coordinate order.
_adfgx_square(key) == _playfair_square(key)

\* "".join(ch for ch in key.upper() if ch.isalnum())
RECURSIVE upper_alnum(_)
upper_alnum(txt) ==
  IF txt = "" THEN ""
  ELSE LET c == upper(Char(txt, 1))
       IN (IF isalpha(c) \/ isdigit(c) THEN c ELSE "") \o upper_alnum(Rest(txt))

\* _adfgvx_square: the 36 letters and digits in coordinate order.
_adfgvx_square(key) ==
  LET key_clean == upper_alnum(key)
  IN IF key_clean = "" THEN Raised("ValueError")
     ELSE Returned(first_occurrences(key_clean \o UPPER \o DIGITS, {}))

\* The loop of adfgx_decrypt and adfgvx_decrypt over the digraphs.
RECURSIVE decode_digraphs(_, _, _)
decode_digraphs(square, symbols, pairs) ==
  IF pairs = "" THEN Returned("")
  ELSE LET letter == reverse_square(square, symbols, SubSeq(pairs, 1, 2))
           rest == decode_digraphs(square, symbols, SubSeq(pairs, 3, Len(pairs)))
       IN IF letter = "" THEN Raised("ValueError")
          ELSE IF rest.raised # "" THEN rest
          ELSE Returned(letter \o rest.value)

\* The common body of adfgx_decrypt and adfgvx_decrypt.
polybius_decrypt(square, symbols, txt, transposition_key) ==
  IF square.raised # "" THEN square
  ELSE LET transposed == columnar_decrypt(txt, transposition_key)
       IN IF transposed.raised # "" THEN transposed
          ELSE LET pairs == IF Len(transposed.value) % 2 # 0
                            THEN SubSeq(transposed.value, 1, Len(transposed.value) - 1)
                            ELSE transposed.value
               IN decode_digraphs(square.value, symbols, pairs)

adfgx_decrypt(txt, square_key, transposition_key) ==
  polybius_decrypt(_adfgx_square(square_key), "ADFGX", txt, transposition_key)

adfgvx_decrypt(txt, square_key, transposition_key) ==
  polybius_decrypt(_adfgvx_square(square_key), "ADFGVX", txt, transposition_key)

\* _decrypt_with_key_loop lines 839-871: the decryption called for a cipher
\* name with the key or keys read; another name is a ValueError.
decrypt_keyed(cipher, txt, key, key2) ==
  CASE cipher \in KeyCiphers -> decrypt_with(cipher, txt, key)
    [] cipher = "playfair" -> playfair_decrypt(txt, key)
    [] cipher = "hill" -> hill_decrypt(txt, key)
    [] cipher = "adfgx" -> adfgx_decrypt(txt, key, key2)
    [] cipher = "adfgvx" -> adfgvx_decrypt(txt, key, key2)
    [] OTHER -> Raised("ValueError")

KeyedCiphers == KeyCiphers \cup {"playfair", "hill", "adfgx", "adfgvx"}
TwoKeyCiphers == {"adfgx", "adfgvx"}

MaxDecryptLen == 3
DecryptChars == {"A", "D", "J", "x", " "}
DecryptTexts == StringsUpTo(DecryptChars, MaxDecryptLen)
DecryptKeys == {"KEY", "HILL", "GYBN", "7", ""}
DecryptKeys2 == {"K", "zA", ""}

KeyedDecrypt ==
  /\ NotCalled
  /\ \E cipher \in KeyedCiphers : \E c \in DecryptTexts :
     \E key \in DecryptKeys : \E key2 \in DecryptKeys2 :
       /\ cipher \notin TwoKeyCiphers => key2 = ""
       /\ call' = [name |-> "decrypt_keyed", args |-> <<cipher, c, key, key2>>]
       /\ ret' = decrypt_keyed(cipher, c, key, key2)
  /\ UNCHANGED pipeline_vars

SpecDecrypt == CallInit /\ [][KeyedDecrypt]_vars

\* A key (or pair of keys) the cipher accepts: a letter in it; for Hill four
\* letters of an invertible matrix; for the ADFGVX square a letter or digit.
WellFormedKey(cipher, key, key2) ==
  CASE cipher = "hill" -> Invertible(key)
    [] cipher = "adfgx" -> HasLetter(key) /\ HasLetter(key2)
    [] cipher = "adfgvx" ->
         /\ \E i \in 1..Len(key) : isalpha(Char(key, i)) \/ isdigit(Char(key, i))
         /\ HasLetter(key2)
    [] OTHER -> HasLetter(key)

\* C16: keyed decryption with a well-formed key returns a string for every
\* input text and never raises.
C16_DecryptNeverRaises ==
  (call.name = "decrypt_keyed"
     /\ WellFormedKey(call.args[1], call.args[3], call.args[4]))
    => ret.raised = ""

\* Playfair decryption of a text with a J in it ended in a KeyError.
C16_PlayfairKeyError ==
  /\ call.name = "decrypt_keyed"
  /\ call.args[1] = "playfair" /\ HasLetter(call.args[3])
  /\ ret = Raised("KeyError")

\* ADFGX decryption of a text with other symbols ended in a ValueError.
C16_AdfgxValueError ==
  /\ call.name = "decrypt_keyed"
  /\ call.args[1] = "adfgx" /\ HasLetter(call.args[3]) /\ HasLetter(call.args[4])
  /\ ret = Raised("ValueError")

(***************************************************************************)
(* The gzip and zlib probes                                                *)
(*                                                                         *)
(* gzip.decompress and zlib.decompress are modelled for streams of stored  *)
(* deflate blocks (BTYPE 00) and blocks of the reserved type (BTYPE 11);   *)
(* the inputs below hold no Huffman block.  Bytes are integers 0..255      *)
(* and 32-bit checksums are four bytes, lowest first.                      *)
(***************************************************************************)

\* a ^ b on non-negative integers.
RECURSIVE xor(_, _)
xor(a, b) ==
  IF a = 0 THEN b
  ELSE IF b = 0 THEN a
  ELSE ((a + b) % 2) + 2 * xor(a \div 2, b \div 2)

xor4(c, d) == [i \in 1..4 |-> xor(c[i], d[i])]

CRC_POLY == <<32, 131, 184, 237>>
ALL_ONES == <<255, 255, 255, 255>>

crc_shift(c) ==
  <<(c[1] \div 2) + ((c[2] % 2) * 128),
    (c[2] \div 2) + ((c[3] % 2) * 128),
    (c[3] \div 2) + ((c[4] % 2) * 128),
    c[4] \div 2>>

RECURSIVE crc_bits(_, _)
crc_bits(c, n) ==
  IF n = 0 THEN c
  ELSE crc_bits(IF c[1] % 2 = 1 THEN xor4(crc_shift(c), CRC_POLY) ELSE crc_shift(c),
                n - 1)

RECURSIVE crc_update(_, _)
crc_update(c, data) ==
  IF data = <<>> THEN c
  ELSE crc_update(crc_bits(<<xor(c[1], Head(data)), c[2], c[3], c[4]>>, 8), Tail(data))

\* zlib.crc32(data), lowest byte first.
crc32(data) == xor4(crc_update(ALL_ONES, data), ALL_ONES)

RECURSIVE adler_sums(_, _, _)
adler_sums(data, a, b) ==
  IF data = <<>> THEN <<b, a>>
  ELSE LET a2 == (a + Head(data)) % 65521
       IN adler_sums(Tail(data), a2, (b + a2) % 65521)

\* zlib.adler32(data) as the pair of its high and low 16 bits.
adler32(data) == adler_sums(data, 1, 0)

\* The state of a raw deflate decompressobj after decompress(data): what it
\* produced, whether it met a data error, whether it saw the final block's
\* end (eof), and the bytes after that end (unused_data).
RECURSIVE inflate(_, _)
inflate(data, out) ==
  IF data = <<>>
  THEN [error |-> FALSE, eof |-> FALSE, out |-> out, unused_data |-> <<>>]
  ELSE LET bfinal == data[1] % 2
           btype == (data[1] \div 2) % 4
           len == data[2] + (256 * data[3])
           nlen == data[4] + (256 * data[5])
       IN CASE btype = 3 ->
                 [error |-> TRUE, eof |-> FALSE, out |-> out, unused_data |-> <<>>]
            [] btype = 0 ->
                 IF Len(data) < 5
                 THEN [error |-> FALSE, eof |-> FALSE, out |-> out, unused_data |-> <<>>]
                 ELSE IF len + nlen # 65535
                 THEN [error |-> TRUE, eof |-> FALSE, out |-> out, unused_data |-> <<>>]
                 ELSE IF Len(data) < 5 + len
                 THEN [error |-> FALSE, eof |-> FALSE,
                       out |-> out \o SubSeq(data, 6, Len(data)), unused_data |-> <<>>]
                 ELSE IF bfinal = 1
                 THEN [error |-> FALSE, eof |-> TRUE,
                       out |-> out \o SubSeq(data, 6, 5 + len),
                       unused_data |-> SubSeq(data, 6 + len, Len(data))]
                 ELSE inflate(SubSeq(data, 6 + len, Len(data)),
                              out \o SubSeq(data, 6, 5 + len))

\* The position after the first zero byte at or after pos, or after the
\* end of the data: the loops of _read_gzip_header over a name or comment.
RECURSIVE skip_string(_, _)
skip_string(data, pos) ==
  IF pos > Len(data) THEN pos
  ELSE IF data[pos] = 0 THEN pos + 1
  ELSE skip_string(data, pos + 1)

\* gzip._read_gzip_header: Returned(the number of header bytes), 0 for no
\* data at all, or the exception raised.
_read_gzip_header(data) ==
  IF data = <<>> THEN Returned(0)
  ELSE IF Len(data) < 2 \/ data[1] # 31 \/ data[2] # 139 THEN Raised("BadGzipFile")
  ELSE IF Len(data) < 10 THEN Raised("EOFError")
  ELSE IF data[3] # 8 THEN Raised("BadGzipFile")
  ELSE LET flag == data[4]
           FEXTRA == (flag \div 4) % 2 = 1
           FNAME == (flag \div 8) % 2 = 1
           FCOMMENT == (flag \div 16) % 2 = 1
           FHCRC == (flag \div 2) % 2 = 1
           extra_short == FEXTRA /\ Len(data) < 12
           extra_len == IF FEXTRA /\ ~extra_short THEN data[11] + (256 * data[12]) ELSE 0
           after_extra == IF FEXTRA THEN 12 + extra_len ELSE 10
           after_name == IF FNAME THEN skip_string(data, after_extra + 1) - 1 ELSE after_extra
           after_comment ==
             IF FCOMMENT THEN skip_string(data, after_name + 1) - 1 ELSE after_name
           after_crc == IF FHCRC THEN after_comment + 2 ELSE after_comment
       IN IF extra_short \/ (FEXTRA /\ after_extra > Len(data)) THEN Raised("EOFError")
          ELSE IF FHCRC /\ after_crc > Len(data) THEN Raised("EOFError")
          ELSE Returned(after_crc)

lstrip_zeros(data) ==
  LET nonzero == {i \in 1..Len(data) : data[i] # 0}
  IN IF nonzero = {} THEN <<>>
     ELSE SubSeq(data, CHOOSE i \in nonzero : \A j \in nonzero : i <= j, Len(data))

\* gzip.decompress(data): the members one after another.
RECURSIVE gzip_decompress(_, _)
gzip_decompress(data, decompressed_members) ==
  LET header == _read_gzip_header(data)
  IN IF header.raised # "" THEN header
     ELSE IF header.value = 0 THEN Returned(decompressed_members)
     ELSE LET do == inflate(SubSeq(data, header.value + 1, Len(data)), <<>>)
          IN IF do.error THEN Raised("zlib.error")
             ELSE IF ~do.eof \/ Len(do.unused_data) < 8 THEN Raised("EOFError")
             ELSE IF SubSeq(do.unused_data, 1, 4) # crc32(do.out) THEN Raised("BadGzipFile")
             ELSE IF SubSeq(do.unused_data, 5, 8)
                       # <<Len(do.out) % 256, Len(do.out) \div 256, 0, 0>>
             THEN Raised("BadGzipFile")
             ELSE gzip_decompress(lstrip_zeros(SubSeq(do.unused_data, 9, Len(do.unused_data))),
                                  decompressed_members \o do.out)

\* zlib.decompress(data): every failure is a zlib.error.
zlib_decompress(data) ==
  IF Len(data) < 2 THEN Raised("zlib.error")
  ELSE IF \/ ((data[1] * 256) + data[2]) % 31 # 0
          \/ data[1] % 16 # 8
          \/ data[1] \div 16 > 7
          \/ (data[2] \div 32) % 2 = 1
  THEN Raised("zlib.error")
  ELSE LET do == inflate(SubSeq(data, 3, Len(data)), <<>>)
       IN IF do.error \/ ~do.eof \/ Len(do.unused_data) < 4 THEN Raised("zlib.error")
          ELSE IF <<(do.unused_data[1] * 256) + do.unused_data[2],
                    (do.unused_data[3] * 256) + do.unused_data[4]>> # adler32(do.out)
          THEN Raised("zlib.error")
          ELSE Returned(do.out)

\* The exceptions an except clause naming these classes catches.
OSErrors == {"OSError", "BadGzipFile"}

_try_gzip(txt, data) ==
  IF data = <<>> THEN Returned(<<>>)
  ELSE LET out == gzip_decompress(data, <<>>)
       IN IF out.raised \in OSErrors \cup {"EOFError"} THEN Returned(<<>>)
          ELSE IF out.raised # "" THEN out
          ELSE Returned(<<DecodeResult("gzip", out.value, "")>>)

_try_zlib(txt, data) ==
  IF data = <<>> THEN Returned(<<>>)
  ELSE LET out == zlib_decompress(data)
       IN IF out.raised \in {"zlib.error", "EOFError"} THEN Returned(<<>>)
          ELSE IF out.raised # "" THEN out
          ELSE Returned(<<DecodeResult("zlib", out.value, "")>>)

\* gzip and zlib streams of b"" and b"a" in one final stored block.
GZIP_EMPTY == <<31, 139, 8, 0, 0, 0, 0, 0, 0, 3, 1, 0, 0, 255, 255, 0, 0, 0, 0, 0, 0, 0, 0>>
GZIP_A ==
  <<31, 139, 8, 0, 0, 0, 0, 0, 0, 3, 1, 1, 0, 254, 255, 97, 67, 190, 183, 232, 1, 0, 0, 0>>
ZLIB_EMPTY == <<120, 1, 1, 0, 0, 255, 255, 0, 0, 0, 1>>
ZLIB_A == <<120, 1, 1, 1, 0, 254, 255, 97, 0, 98, 0, 98>>

\* The stream cut short, and the stream with one byte overwritten.
Truncated(stream) == {SubSeq(stream, 1, n) : n \in 0..Len(stream)}
Overwritten(stream, values) ==
  {[stream EXCEPT ![i] = v] : i \in 1..Len(stream), v \in values}

\* Overwriting the streams of b"a" keeps their single block final (odd
\* values), so that no checksum byte is read as a block header.
CompressedInputs ==
  UNION {Truncated(stream) : stream \in {GZIP_EMPTY, GZIP_A, ZLIB_EMPTY, ZLIB_A}}
    \cup UNION {Overwritten(stream, {0, 9, 255}) : stream \in {GZIP_EMPTY, ZLIB_EMPTY}}
    \cup UNION {Overwritten(stream, {9, 255}) : stream \in {GZIP_A, ZLIB_A}}

TryGzip ==
  /\ NotCalled
  /\ \E data \in CompressedInputs :
       /\ call' = [name |-> "_try_gzip", args |-> <<data>>]
       /\ ret' = _try_gzip(to_text(data), data)
  /\ UNCHANGED pipeline_vars

TryZlib ==
  /\ NotCalled
  /\ \E data \in CompressedInputs :
       /\ call' = [name |-> "_try_zlib", args |-> <<data>>]
       /\ ret' = _try_zlib(to_text(data), data)
  /\ UNCHANGED pipeline_vars

CompressNext == TryGzip \/ TryZlib

SpecCompress == CallInit /\ [][CompressNext]_vars

\* The library call of the probe raised for the input: not a valid stream.
NotAValidStream ==
  \/ call.name = "_try_gzip" /\ gzip_decompress(call.args[1], <<>>).raised # ""
  \/ call.name = "_try_zlib" /\ zlib_decompress(call.args[1]).raised # ""

\* C17: for every input that is not a valid compressed stream the gzip and
\* zlib probes return an empty sequence and never raise.
C17_ProbesTotal == NotAValidStream => ret = Returned(<<>>)

\* The zlib probe alone does return for every input.
C17_ZlibTotal == call.name = "_try_zlib" => ret.raised = ""

\* The gzip probe raised zlib.error on a gzip header with a corrupt body.
C17_GzipRaises ==
  /\ call.name = "_try_gzip"
  /\ ret = Raised("zlib.error")

\* Both probes decoded a valid stream of b"a".
C17_Decoded ==
  /\ call.name \in {"_try_gzip", "_try_zlib"}
  /\ ret.raised = "" /\ ret.value # <<>>
  /\ ret.value[1].output = <<97>>

(***************************************************************************)
(* The xor probe                                                           *)
(***************************************************************************)

HEX_DIGITS == "0123456789abcdef"

\* f"{key:02x}" for a key below 256.
hex02(key) == Char(HEX_DIGITS, (key \div 16) + 1) \o Char(HEX_DIGITS, (key % 16) + 1)

\* bytes(byte ^ key for byte in data)
xor_bytes(data, key) == [i \in 1..Len(data) |-> xor(data[i], key)]

_try_xor_from_zero(txt, data) ==
  IF data = <<>> THEN <<>>
  ELSE [key \in 1..255 |->
          DecodeResult("xor", xor_bytes(data, key - 1), "key=0x" \o hex02(key - 1))]

_try_xor(txt, data) ==
  IF data = <<>> THEN <<>>
  ELSE [key \in 1..255 |->
          DecodeResult("xor", xor_bytes(data, key), "key=0x" \o hex02(key))]

MaxXorLen == 2
XorBytes == {0, 32, 97, 255}
RECURSIVE BytesUpTo(_, _)
BytesUpTo(values, n) ==
  IF n = 0 THEN {<<>>}
  ELSE LET shorter == BytesUpTo(values, n - 1)
       IN shorter \cup {Append(x, b) : x \in shorter, b \in values}
XorPlaintexts == BytesUpTo(XorBytes, MaxXorLen)
XorKeys == {1, 2, 15, 16, 97, 128, 171, 255}

\* The probe on plaintext ^ key.
TryXor ==
  /\ NotCalled
  /\ \E plaintext \in XorPlaintexts : \E key \in XorKeys :
       LET data == xor_bytes(plaintext, key)
       IN /\ call' = [name |-> "_try_xor", args |-> <<plaintext, key, data>>]
          /\ ret' = Returned(_try_xor(to_text(data), data))
  /\ UNCHANGED pipeline_vars

SpecXor == CallInit /\ [][TryXor]_vars

\* The number a note "key=0x<two hex digits>" names, or -1 for another note.
KeyOfNote(note) ==
  LET digit(c) == IF c \in Chars(HEX_DIGITS)
                  THEN (CHOOSE i \in 1..16 : Char(HEX_DIGITS, i) = c) - 1
                  ELSE -1
  IN IF Len(note) = 8 /\ SubSeq(note, 1, 6) = "key=0x"
        /\ digit(Char(note, 7)) >= 0 /\ digit(Char(note, 8)) >= 0
     THEN (16 * digit(Char(note, 7))) + digit(Char(note, 8))
     ELSE -1

\* C18: for non-empty input the xor probe returns exactly 255 candidates, one
\* per key 1..255 in ascending order, each tagged key=0x<two hex digits>; of
\* the candidates for plaintext ^ k exactly one has the plaintext as output,
\* the one tagged with k.  For empty input it returns none.
C18_XorCandidates ==
  call.name = "_try_xor" =>
    LET plaintext == call.args[1]
        k == call.args[2]
        data == call.args[3]
        candidates == ret.value
    IN /\ ret.raised = ""
       /\ data = <<>> => candidates = <<>>
       /\ data # <<>> =>
            /\ Len(candidates) = 255
            /\ \A i \in 1..255 :
                 /\ candidates[i].name = "xor"
                 /\ KeyOfNote(candidates[i].note) = i
                 /\ Len(candidates[i].output) = Len(data)
            /\ {i \in 1..255 : candidates[i].output = plaintext} = {k}

\* The probe ran on a non-empty plaintext xored with a key above 0x0f.
C18_Witness ==
  /\ call.name = "_try_xor"
  /\ call.args[1] = <<97, 32>> /\ call.args[2] = 171
  /\ Len(ret.value) = 255
  /\ ret.value[171] = DecodeResult("xor", <<97, 32>>, "key=0xab")

(***************************************************************************)
(* The caesar probe                                                        *)
(***************************************************************************)

RECURSIVE _shift_alpha(_, _)
_shift_alpha(txt, shift) ==
  IF txt = "" THEN ""
  ELSE LET ch == Char(txt, 1)
           shifted == IF islower(ch)
                      THEN chr(((ord(ch) - ord("a") + shift) % 26) + ord("a"))
                      ELSE IF isupper(ch)
                      THEN chr(((ord(ch) - ord("A") + shift) % 26) + ord("A"))
                      ELSE ch
       IN shifted \o _shift_alpha(Rest(txt), shift)

encode_caesar(txt, shift) == _shift_alpha(txt, shift)

\* The loop of _try_caesar from a shift on.
RECURSIVE caesar_from(_, _, _)
caesar_from(txt, shift, direction) ==
  IF shift > 25 THEN <<>>
  ELSE LET out_text == _shift_alpha(txt, direction * shift)
       IN (IF out_text = txt THEN <<>>
           ELSE <<DecodeResult("caesar", encode_utf8(out_text), "shift=" \o str(shift))>>)
            \o caesar_from(txt, shift + 1, direction)

_try_caesar_forward(txt, data) ==
  IF txt = "" THEN <<>> ELSE caesar_from(txt, 1, 1)

_try_caesar(txt, data) ==
  IF txt = "" THEN <<>> ELSE caesar_from(txt, 1, -1)

MaxCaesarLen == 3
CaesarChars == {"a", "Z", "y", "1"}
CaesarTexts == StringsUpTo(CaesarChars, MaxCaesarLen)

\* The probe on encode_caesar(plaintext, N).
TryCaesar ==
  /\ NotCalled
  /\ \E plaintext \in CaesarTexts : \E N \in 1..25 :
       LET cipher == encode_caesar(plaintext, N)
       IN /\ call' = [name |-> "_try_caesar", args |-> <<plaintext, N, cipher>>]
          /\ ret' = Returned(_try_caesar(cipher, encode_utf8(cipher)))
  /\ UNCHANGED pipeline_vars

SpecCaesar == CallInit /\ [][TryCaesar]_vars

\* C19: for a plaintext p with at least one ASCII letter and a shift N in
\* 1..25, the caesar probe on encode_caesar(p, N) returns exactly 25
\* candidates with notes shift=1..shift=25 in that order, the candidate
\* shift=N has output p, and encode_caesar(output, M) is the probe's input
\* for every candidate shift=M.
C19_CaesarCandidates ==
  (call.name = "_try_caesar" /\ HasLetter(call.args[1])) =>
    LET plaintext == call.args[1]
        N == call.args[2]
        cipher == call.args[3]
        candidates == ret.value
    IN /\ ret.raised = ""
       /\ Len(candidates) = 25
       /\ \A M \in 1..25 :
            /\ candidates[M].name = "caesar"
            /\ candidates[M].note = "shift=" \o str(M)
            /\ encode_caesar(to_text(candidates[M].output), M) = cipher
       /\ candidates[N].output = encode_utf8(plaintext)

\* The probe ran on a mixed-case plaintext shifted by 23.
C19_Witness ==
  /\ call.name = "_try_caesar"
  /\ call.args = <<"aZ1", 23, "xW1">>
  /\ Len(ret.value) = 25
  /\ ret.value[23] = DecodeResult("caesar", encode_utf8("aZ1"), "shift=23")

\* A text without a letter gives the probe nothing to shift.
C19_LetterFree ==
  (call.name = "_try_caesar" /\ ~HasLetter(call.args[1])) => ret = Returned(<<>>)

(***************************************************************************)
(* The rot13, atbash and reverse probes called directly                    *)
(***************************************************************************)

MaxFixedLen == 3
FixedChars == {"a", "n", "Z", "1", " "}
FixedTexts == StringsUpTo(FixedChars, MaxFixedLen)

TryRot13 ==
  /\ NotCalled
  /\ \E t \in FixedTexts :
       /\ call' = [name |-> "_try_rot13", args |-> <<t>>]
       /\ ret' = Returned(_try_rot13(t, encode_utf8(t)))
  /\ UNCHANGED pipeline_vars

TryAtbash ==
  /\ NotCalled
  /\ \E t \in FixedTexts :
       /\ call' = [name |-> "_try_atbash", args |-> <<t>>]
       /\ ret' = Returned(_try_atbash(t, encode_utf8(t)))
  /\ UNCHANGED pipeline_vars

TryReverse ==
  /\ NotCalled
  /\ \E t \in FixedTexts :
       /\ call' = [name |-> "_try_reverse", args |-> <<t>>]
       /\ ret' = Returned(_try_reverse(t, encode_utf8(t)))
  /\ UNCHANGED pipeline_vars

FixedNext == TryRot13 \/ TryAtbash \/ TryReverse

SpecFixed == CallInit /\ [][FixedNext]_vars

Palindrome(t) == \A i \in 1..Len(t) : Char(t, i) = Char(t, Len(t) + 1 - i)

\* C20: the rot13, atbash and reverse probes return at most one candidate
\* and never one whose output text equals the input text: none for empty
\* input, for letter-free input (rot13, atbash) and for palindromes
\* (reverse), and exactly one otherwise.
C20_NoOpGuard ==
  call.name \in {"_try_rot13", "_try_atbash", "_try_reverse"} =>
    LET t == call.args[1]
        nothing == IF call.name = "_try_reverse" THEN Palindrome(t) ELSE ~HasLetter(t)
    IN /\ ret.raised = ""
       /\ Len(ret.value) <= 1
       /\ \A i \in 1..Len(ret.value) : to_text(ret.value[i].output) # t
       /\ nothing => ret.value = <<>>
       /\ ~nothing => Len(ret.value) = 1

\* The reverse probe turned a text that is no palindrome around.
C20_Witness ==
  /\ call = [name |-> "_try_reverse", args |-> <<"a1n">>]
  /\ ret = Returned(<<DecodeResult("reverse", encode_utf8("n1a"), "")>>)

\* The reverse probe found nothing for a palindrome of three characters.
C20_PalindromeWitness ==
  /\ call = [name |-> "_try_reverse", args |-> <<"a1a">>]
  /\ ret = Returned(<<>>)

(***************************************************************************)
(* The railfence probe called directly                                     *)
(***************************************************************************)

\* The characters _rail_fence_encrypt appends to the line of one rail.
RECURSIVE rail_line(_, _, _, _)
rail_line(txt, pattern, rail, i) ==
  IF i > Len(txt) THEN ""
  ELSE (IF pattern[i] = rail THEN Char(txt, i) ELSE "")
         \o rail_line(txt, pattern, rail, i + 1)

RECURSIVE rail_lines_from(_, _, _, _)
rail_lines_from(txt, pattern, rail, rails) ==
  IF rail >= rails THEN ""
  ELSE rail_line(txt, pattern, rail, 1) \o rail_lines_from(txt, pattern, rail + 1, rails)

_rail_fence_encrypt(txt, rails) ==
  IF rails <= 1 THEN txt
  ELSE rail_lines_from(txt, rail_pattern(Len(txt), rails, 0, 1), 0, rails)

encode_railfence(txt, rails, strip_spaces) ==
  _rail_fence_encrypt(IF strip_spaces THEN clean_whitespace(txt) ELSE txt, rails)

MaxRailLen == 5
RailChars == {"a", "b", " "}
RailTexts == StringsUpTo(RailChars, MaxRailLen)
RailPlainChars == {"a", "b", "c"}
RailPlaintexts == StringsUpTo(RailPlainChars, MaxRailLen)

\* The probe on any text.
TryRailFence ==
  /\ NotCalled
  /\ \E t \in RailTexts :
       /\ call' = [name |-> "_try_rail_fence", args |-> <<t>>]
       /\ ret' = Returned(_try_rail_fence(t, encode_utf8(t)))
  /\ UNCHANGED pipeline_vars

\* The probe on the 3-rail encryption of a plaintext.
TryRailFenceEncrypted ==
  /\ NotCalled
  /\ \E plaintext \in RailPlaintexts :
       LET cipher == encode_railfence(plaintext, 3, FALSE)
       IN /\ call' = [name |-> "railfence_of_encrypted", args |-> <<plaintext, cipher>>]
          /\ ret' = Returned(_try_rail_fence(cipher, encode_utf8(cipher)))
  /\ UNCHANGED pipeline_vars

RailNext == TryRailFence \/ TryRailFenceEncrypted

SpecRail == CallInit /\ [][RailNext]_vars

HasNote(candidates, note) == \E i \in 1..Len(candidates) : candidates[i].note = note

\* C21: for every rail count N in 2..min(7, len(text))-1 the railfence probe
\* emits 'rails=N,stripspaces=no' iff un-railing the raw text changes it, and
\* 'rails=N,stripspaces=yes' iff the stripped text is non-empty, differs from
\* the raw text and un-railing it changes it, whether or not the raw variant
\* was a no-op; no other rail count is tried.
C21_IndependentVariants ==
  call.name = "_try_rail_fence" =>
    LET t == call.args[1]
        stripped == clean_whitespace(t)
        tried == 2..(Min(7, Len(t)) - 1)
    IN \A N \in 1..8 :
         /\ HasNote(ret.value, "rails=" \o str(N) \o ",stripspaces=no")
              <=> (N \in tried /\ _rail_fence_decrypt(t, N) # t)
         /\ HasNote(ret.value, "rails=" \o str(N) \o ",stripspaces=yes")
              <=> (N \in tried /\ stripped # "" /\ stripped # t
                     /\ _rail_fence_decrypt(stripped, N) # stripped)

\* The raw variant decides alone: a rail count whose raw un-railing is a
\* no-op gives no candidate at all.
C21_RawGuardsBoth ==
  call.name = "_try_rail_fence" =>
    \A N \in 2..(Min(7, Len(call.args[1])) - 1) :
      _rail_fence_decrypt(call.args[1], N) = call.args[1]
        => /\ ~HasNote(ret.value, "rails=" \o str(N) \o ",stripspaces=no")
           /\ ~HasNote(ret.value, "rails=" \o str(N) \o ",stripspaces=yes")

\* The probe ran on " aab": two rails leave it as it is, and "aab" stripped
\* would un-rail to "aba".
C21_SkippedVariant ==
  /\ call = [name |-> "_try_rail_fence", args |-> <<" aab">>]
  /\ _rail_fence_decrypt("aab", 2) = "aba"
  /\ ~HasNote(ret.value, "rails=2,stripspaces=yes")

WhitespaceFree(t) == clean_whitespace(t) = t

\* The case of C22: a whitespace-free plaintext longer than 3 whose 3-rail
\* encryption differs from it.
EncryptedCase ==
  /\ call.name = "railfence_of_encrypted"
  /\ WhitespaceFree(call.args[1])
  /\ Len(call.args[1]) > 3
  /\ call.args[2] # call.args[1]

BACON_LETTERS_26 == "ABCDEFGHIJKLMNOPQRSTUVWXYZ"
BACON_LETTERS_24 == "ABCDEFGHIKLMNOPQRSTUWXYZ"

RECURSIVE bacon_bits(_, _)
bacon_bits(chunk, value) ==
  IF chunk = "" THEN value
  ELSE bacon_bits(Rest(chunk), (2 * value) + (IF Char(chunk, 1) = "B" THEN 1 ELSE 0))

\* mapping.get(chunk), "" for None.
bacon_get(letters, chunk) ==
  LET idx == bacon_bits(chunk, 0)
  IN IF idx < Len(letters) THEN Char(letters, idx + 1) ELSE ""

\* The loop of _try_bacon over the chunks of five: Returned(out_text), or
\* Raised("invalid") where the loop breaks with valid = False.
RECURSIVE bacon_chunks(_, _, _)
bacon_chunks(raw, label, letters) ==
  IF raw = "" THEN Returned("")
  ELSE LET letter == bacon_get(letters, SubSeq(raw, 1, 5))
           rest == bacon_chunks(SubSeq(raw, 6, Len(raw)), label, letters)
           out == IF label = "classic" /\ letter = "I" THEN "I/J"
                  ELSE IF label = "classic" /\ letter = "U" THEN "U/V"
                  ELSE letter
       IN IF letter = "" THEN Raised("invalid")
          ELSE IF rest.raised # "" THEN rest
          ELSE Returned(out \o rest.value)

bacon_variant(raw, label, letters) ==
  LET out_text == bacon_chunks(raw, label, letters)
  IN IF out_text.raised # "" THEN <<>>
     ELSE <<DecodeResult("bacon", encode_utf8(out_text.value), label)>>

_try_bacon(txt, data) ==
  LET raw == upper(clean_whitespace(strip(txt)))
  IN IF raw = "" THEN <<>>
     ELSE IF \E i \in 1..Len(raw) : Char(raw, i) \notin {"A", "B"} THEN <<>>
     ELSE IF Len(raw) % 5 # 0 THEN <<>>
     ELSE bacon_variant(raw, "classic", BACON_LETTERS_24)
            \o bacon_variant(raw, "binary", BACON_LETTERS_26)

MaxBaconLen == 6
BaconChars == {"A", "B", "b", " "}
BaconTexts == StringsUpTo(BaconChars, MaxBaconLen)

TryBacon ==
  /\ NotCalled
  /\ \E t \in BaconTexts :
       /\ call' = [name |-> "_try_bacon", args |-> <<t>>]
       /\ ret' = Returned(_try_bacon(t, encode_utf8(t)))
  /\ UNCHANGED pipeline_vars

SpecBacon == CallInit /\ [][TryBacon]_vars

\* Whitespace-free, only the characters A and B, a multiple of 5 long.
StrictBacon(t) ==
  /\ \A i \in 1..Len(t) : Char(t, i) \in {"A", "B"}
  /\ Len(t) % 5 = 0

\* C23: the bacon probe returns no candidates unless its input is
\* whitespace-free, consists only of 'A' and 'B' and has a length that is a
\* multiple of 5.
C23_StrictInput ==
  (call.name = "_try_bacon" /\ ~StrictBacon(call.args[1])) => ret.value = <<>>

\* The probe decoded a group written with a lowercase b.
C23_LowercaseDecoded ==
  /\ call = [name |-> "_try_bacon", args |-> <<"AAAAb">>]
  /\ ret.value = <<DecodeResult("bacon", encode_utf8("B"), "classic"),
                   DecodeResult("bacon", encode_utf8("B"), "binary")>>

\* The probe decoded a group with a space in it.
C23_SpacedDecoded ==
  /\ call = [name |-> "_try_bacon", args |-> <<"BB AAB">>]
  /\ ret.value = <<DecodeResult("bacon", encode_utf8("Z"), "binary")>>

(***************************************************************************)
(* The morse probe                                                         *)
(***************************************************************************)

_MORSE_TABLE ==
  ".-" :> "A" @@ "-..." :> "B" @@ "-.-." :> "C" @@ "-.." :> "D" @@ "." :> "E" @@
  "..-." :> "F" @@ "--." :> "G" @@ "...." :> "H" @@ ".." :> "I" @@ ".---" :> "J" @@
  "-.-" :> "K" @@ ".-.." :> "L" @@ "--" :> "M" @@ "-." :> "N" @@ "---" :> "O" @@
  ".--." :> "P" @@ "--.-" :> "Q" @@ ".-." :> "R" @@ "..." :> "S" @@ "-" :> "T" @@
  "..-" :> "U" @@ "...-" :> "V" @@ ".--" :> "W" @@ "-..-" :> "X" @@ "-.--" :> "Y" @@
  "--.." :> "Z" @@ "-----" :> "0" @@ ".----" :> "1" @@ "..---" :> "2" @@ "...--" :> "3" @@
  "....-" :> "4" @@ "....." :> "5" @@ "-...." :> "6" @@ "--..." :> "7" @@ "---.." :> "8" @@
  "----." :> "9" @@ ".-.-.-" :> "." @@ "--..--" :> "," @@ "..--.." :> "?" @@ "-.-.--" :> "!" @@
  "-..-." :> "/" @@ "-....-" :> "-" @@ ".----." :> "'" @@ "-.--." :> "(" @@ "-.--.-" :> ")"

\* text.split(): the maximal runs of characters that are no whitespace.
RECURSIVE split_from(_, _)
split_from(txt, current) ==
  IF txt = "" THEN (IF current = "" THEN <<>> ELSE <<current>>)
  ELSE IF isspace(Char(txt, 1))
  THEN (IF current = "" THEN <<>> ELSE <<current>>) \o split_from(Rest(txt), "")
  ELSE split_from(Rest(txt), current \o Char(txt, 1))

split(txt) == split_from(txt, "")

\* " ".join(words)
RECURSIVE join_spaces(_)
join_spaces(words) ==
  IF words = <<>> THEN ""
  ELSE IF Len(words) = 1 THEN words[1]
  ELSE words[1] \o " " \o join_spaces(Tail(words))

\* The token loop of _try_morse: Returned(words), or Raised("unknown") where
\* a token is not in the table and the probe returns [].  With skip_unknown
\* the token is passed over instead.
RECURSIVE morse_words(_, _, _, _)
morse_words(tokens, current, words, skip_unknown) ==
  IF tokens = <<>>
  THEN Returned(IF current # "" THEN Append(words, current) ELSE words)
  ELSE IF tokens[1] = "/"
  THEN morse_words(Tail(tokens), "",
                   IF current # "" THEN Append(words, current) ELSE words, skip_unknown)
  ELSE IF tokens[1] \notin DOMAIN _MORSE_TABLE
  THEN (IF skip_unknown THEN morse_words(Tail(tokens), current, words, skip_unknown)
        ELSE Raised("unknown"))
  ELSE morse_words(Tail(tokens), current \o _MORSE_TABLE[tokens[1]], words, skip_unknown)

morse_probe(txt, skip_unknown) ==
  LET raw == strip(txt)
      tokens == split(replace(raw, "/", " / "))
      words == morse_words(tokens, "", <<>>, skip_unknown)
  IN IF raw = "" THEN <<>>
     ELSE IF \E i \in 1..Len(raw) : Char(raw, i) \notin {".", "-", "/", " ", "\t", "\r", "\n"}
     THEN <<>>
     ELSE IF tokens = <<>> THEN <<>>
     ELSE IF words.raised # "" THEN <<>>
     ELSE IF words.value = <<>> THEN <<>>
     ELSE <<DecodeResult("morse", encode_utf8(join_spaces(words.value)), "")>>

_try_morse_partial(txt, data) == morse_probe(txt, TRUE)

_try_morse(txt, data) == morse_probe(txt, FALSE)

MaxMorsePieces == 4
MorsePieces == {".", "-", "----", " ", "/", "x", "\n"}
MorseTexts == StringsUpTo(MorsePieces, MaxMorsePieces)

TryMorse ==
  /\ NotCalled
  /\ \E t \in MorseTexts :
       /\ call' = [name |-> "_try_morse", args |-> <<t>>]
       /\ ret' = Returned(_try_morse(t, encode_utf8(t)))
  /\ UNCHANGED pipeline_vars

SpecMorse == CallInit /\ [][TryMorse]_vars

\* The table letters of the tokens that are no word separator, in order,
\* with "?" for a token the table does not have.
RECURSIVE TokenLetters(_)
TokenLetters(tokens) ==
  IF tokens = <<>> THEN ""
  ELSE (IF tokens[1] = "/" THEN ""
        ELSE IF tokens[1] \in DOMAIN _MORSE_TABLE THEN _MORSE_TABLE[tokens[1]]
        ELSE "?") \o TokenLetters(Tail(tokens))

\* The number of words: maximal runs of tokens between separators.
WordCount(tokens) ==
  Cardinality({i \in 1..Len(tokens) :
                 tokens[i] # "/" /\ (i = 1 \/ tokens[i - 1] = "/")})

\* C24: the morse probe never returns a partial decoding: with a character
\* other than '.', '-', '/' and whitespace in the trimmed input, or a token
\* that is not in the Morse table, it returns no candidates; otherwise at
\* most one candidate, whose output is the table letters of all tokens,
\* words joined by single spaces.
C24_NoPartialDecoding ==
  call.name = "_try_morse" =>
    LET raw == strip(call.args[1])
        bad_char == \E i \in 1..Len(raw) : Char(raw, i) \notin {".", "-", "/"}
                                            /\ ~isspace(Char(raw, i))
        tokens == split(replace(raw, "/", " / "))
        unknown == \E i \in 1..Len(tokens) :
                     tokens[i] # "/" /\ tokens[i] \notin DOMAIN _MORSE_TABLE
    IN /\ ret.raised = ""
       /\ Len(ret.value) <= 1
       /\ (bad_char \/ unknown) => ret.value = <<>>
       /\ Len(ret.value) = 1 =>
            LET out_text == to_text(ret.value[1].output)
            IN /\ ret.value[1].name = "morse"
               /\ clean_whitespace(out_text) = TokenLetters(tokens)
               /\ Len(out_text) = Len(TokenLetters(tokens)) + WordCount(tokens) - 1
               /\ Char(out_text, 1) # " " /\ Char(out_text, Len(out_text)) # " "
               /\ \A i \in 1..(Len(out_text) - 1) :
                    ~(Char(out_text, i) = " " /\ Char(out_text, i + 1) = " ")
       /\ (~bad_char /\ ~unknown /\ TokenLetters(tokens) # "") => Len(ret.value) = 1

\* The probe decoded two words.
C24_Witness ==
  /\ call = [name |-> "_try_morse", args |-> <<".-/.">>]
  /\ ret.value = <<DecodeResult("morse", encode_utf8("A E"), "")>>

\* The probe gave nothing for a known token followed by an unknown one.
C24_UnknownToken ==
  /\ call = [name |-> "_try_morse", args |-> <<". ----">>]
  /\ ret.value = <<>>

(***************************************************************************)
(* The fibonacci probe                                                     *)
(***************************************************************************)

RECURSIVE _apply_fibonacci(_, _, _, _, _)
_apply_fibonacci(txt, seed_a, seed_b, direction, advance_all) ==
  IF txt = "" THEN ""
  ELSE LET ch == Char(txt, 1)
           shift == seed_a % 26
           advanced == islower(ch) \/ isupper(ch)
           out == IF islower(ch)
                  THEN chr(((ord(ch) - ord("a") + (direction * shift)) % 26) + ord("a"))
                  ELSE IF isupper(ch)
                  THEN chr(((ord(ch) - ord("A") + (direction * shift)) % 26) + ord("A"))
                  ELSE ch
       IN out \o (IF advanced \/ advance_all
                  THEN _apply_fibonacci(Rest(txt), seed_b, seed_a + seed_b, direction,
                                        advance_all)
                  ELSE _apply_fibonacci(Rest(txt), seed_a, seed_b, direction, advance_all))

encode_fibonacci(txt, seed_a, seed_b, advance_all) ==
  _apply_fibonacci(txt, seed_a, seed_b, 1, advance_all)

\* The combinations _try_fibonacci loops over, in loop order.
FibonacciSeeds == <<<<0, 1>>, <<1, 1>>>>
FibonacciDirections == <<<<-1, "sub">>, <<1, "add">>>>
FibonacciAdvances == <<<<FALSE, "alpha">>, <<TRUE, "all">>>>

\* One pass of the innermost loop body.
fibonacci_result(txt, seed, direction, advance) ==
  LET out_text == _apply_fibonacci(txt, seed[1], seed[2], direction[1], advance[1])
  IN IF out_text = txt THEN <<>>
     ELSE <<DecodeResult("fibonacci", encode_utf8(out_text),
                         "seed=" \o str(seed[1]) \o "," \o str(seed[2])
                           \o " dir=" \o direction[2] \o " adv=" \o advance[2])>>

fibonacci_results(txt, directions) ==
  LET per_direction(seed, direction) ==
        fibonacci_result(txt, seed, direction, FibonacciAdvances[1])
          \o fibonacci_result(txt, seed, direction, FibonacciAdvances[2])
      per_seed(seed) ==
        IF Len(directions) = 1 THEN per_direction(seed, directions[1])
        ELSE per_direction(seed, directions[1]) \o per_direction(seed, directions[2])
  IN per_seed(FibonacciSeeds[1]) \o per_seed(FibonacciSeeds[2])

_try_fibonacci_add_only(txt, data) ==
  IF txt = "" THEN <<>>
  ELSE IF ~\E i \in 1..Len(txt) : isalpha(Char(txt, i)) THEN <<>>
  ELSE fibonacci_results(txt, <<FibonacciDirections[2]>>)

_try_fibonacci(txt, data) ==
  IF txt = "" THEN <<>>
  ELSE IF ~\E i \in 1..Len(txt) : isalpha(Char(txt, i)) THEN <<>>
  ELSE fibonacci_results(txt, FibonacciDirections)

MaxFibonacciLen == 3
FibonacciChars == {"a", "Z", " ", "1"}
FibonacciTexts == StringsUpTo(FibonacciChars, MaxFibonacciLen)

\* The probe on encode_fibonacci(plaintext, seed, advance_all).
TryFibonacci ==
  /\ NotCalled
  /\ \E plaintext \in FibonacciTexts : \E s \in 1..2 : \E advance_all \in BOOLEAN :
       LET seed == FibonacciSeeds[s]
           cipher == encode_fibonacci(plaintext, seed[1], seed[2], advance_all)
       IN /\ call' = [name |-> "_try_fibonacci",
                      args |-> <<plaintext, seed, advance_all, cipher>>]
          /\ ret' = Returned(_try_fibonacci(cipher, encode_utf8(cipher)))
  /\ UNCHANGED pipeline_vars

SpecFibonacci == CallInit /\ [][TryFibonacci]_vars

HasOutput(candidates, txt) ==
  \E i \in 1..Len(candidates) : candidates[i].output = encode_utf8(txt)

\* C25 as stated: for every plaintext with a letter the probe on its
\* encryption returns a candidate whose output is the plaintext, at most 8
\* candidates, and none whose output equals the probe's input.
C25_AlwaysRecovered ==
  (call.name = "_try_fibonacci" /\ HasLetter(call.args[1])) =>
    /\ HasOutput(ret.value, call.args[1])
    /\ Len(ret.value) <= 8
    /\ ~HasOutput(ret.value, call.args[4])

\* C25: for every plaintext with a letter, each seed pair and each advance
\* mode, the probe on the encryption returns a candidate whose output is the
\* plaintext exactly when the encryption differs from the plaintext; it
\* returns at most 8 candidates and none whose output equals its input.
C25_RecoveredUnlessUnchanged ==
  (call.name = "_try_fibonacci" /\ HasLetter(call.args[1])) =>
    /\ HasOutput(ret.value, call.args[1]) <=> call.args[4] # call.args[1]
    /\ Len(ret.value) <= 8
    /\ ~HasOutput(ret.value, call.args[4])

\* The probe recovered "aZa" from its encryption with seeds 1,1, advancing
\* on letters only.
C25_Witness ==
  /\ call = [name |-> "_try_fibonacci", args |-> <<"aZa", <<1, 1>>, FALSE, "bAc">>]
  /\ Len(ret.value) = 8
  /\ ret.value[5] = DecodeResult("fibonacci", encode_utf8("aZa"), "seed=1,1 dir=sub adv=alpha")

\* The encryption of "a" with seeds 0,1 is "a", and the probe on it gives
\* no candidate "a".
C25_Unchanged ==
  /\ call.name = "_try_fibonacci"
  /\ call.args[1] = "a" /\ call.args[2] = <<0, 1>> /\ call.args[4] = "a"
  /\ ret.value # <<>>
  /\ ~HasOutput(ret.value, "a")

(***************************************************************************)
(* The chain search alone, to a greater depth                              *)
(***************************************************************************)

MaxGatherDepth == 3

GatherInit == InitWith(1..MaxGatherDepth)

GatherNext ==
  \/ Start
  \/ GatherCall
  \/ GatherConsume
  \/ GatherNextDecoder
  \/ GatherNextLevel
  \/ GatherReturn

SpecGather == GatherInit /\ [][GatherNext]_vars

Searching == pc \in {"gather", "rank"}

\* The item a chain was expanded from: the original input for a chain of one
\* label, else an earlier result with the chain less its last label.
Parents(n) ==
  LET chain == results[n].chain
      front == SubSeq(chain, 1, Len(chain) - 1)
  IN IF Len(chain) = 1 THEN {encode_utf8(text)}
     ELSE {results[j].data : j \in {k \in 1..(n - 1) : results[k].chain = front}}

\* The (label, output) pairs the enabled probes give for the bytes.
Produced(data) ==
  UNION {{<<IF r.note = "" THEN r.name ELSE r.name \o ":" \o r.note, r.output>> :
            r \in Range(func(active[d], to_text(data), data))} : d \in 1..Len(active)}

\* C26: every item of the chain search has a chain of length 1..depth; an
\* item made at level k from a frontier item has that item's chain followed
\* by one label (the probe's name, or 'name:note' with a note), so its chain
\* has length k; and the result list is in breadth-first order: chain
\* lengths never decrease along the list.
C26_BreadthFirst ==
  Searching =>
    /\ \A n \in 1..Len(results) :
         /\ Len(results[n].chain) \in 1..chain_depth
         /\ \E parent \in Parents(n) :
              <<results[n].chain[Len(results[n].chain)], results[n].data>> \in Produced(parent)
         /\ n > 1 => Len(results[n - 1].chain) <= Len(results[n].chain)
    /\ pc = "gather" =>
         /\ \A n \in 1..Len(results) : Len(results[n].chain) <= level + 1
         /\ \A i \in 1..Len(queue) : Len(queue[i].chain) = level
         /\ \A i \in 1..Len(next_queue) : Len(next_queue[i].chain) = level + 1

\* The search returned items of two levels, one of the first level with a
\* note in its label.
C26_Witness ==
  /\ pc = "rank"
  /\ \E k \in 1..Len(results) : \E n \in 1..Len(results) :
       /\ results[k].chain = <<"railfence:rails=2,stripspaces=no">>
       /\ k < n
       /\ Len(results[n].chain) = 2

\* C29: with max_results = m >= 1, every item fed to the probes at level 2
\* or deeper is already in the result list, and the number of items expanded
\* over the whole search (the original input and the frontier items of all
\* levels) is at most m.
C29_WorkBounded ==
  Searching =>
    /\ Len(expanded) <= max_results
    /\ expanded # <<>> => expanded[1] = encode_utf8(text)
    /\ \A i \in 2..Len(expanded) :
         \E n \in 1..Len(results) : results[n].data = expanded[i]
    /\ (pc = "gather" /\ level >= 1) =>
         \A i \in 1..Len(queue) :
           \E n \in 1..Len(results) : results[n] = DecodedItem(queue[i].chain, queue[i].data)

\* A search of three levels ended with as many items expanded as the cap
\* allows.
C29_Witness ==
  /\ pc = "rank"
  /\ max_results = 3
  /\ Len(expanded) = 3
  /\ Len(results) = 3
  /\ Len(results[3].chain) = 3

\* C30: no byte content is fed to the probes more than once in a search,
\* the original input at level 0 included: a candidate whose bytes are those
\* of the original input is never placed on a later frontier.
C30_NoReExpansion ==
  Searching =>
    /\ \A i \in 1..Len(expanded) : \A j \in 1..Len(expanded) :
         i # j => expanded[i] # expanded[j]
    /\ \A i \in 1..Len(next_queue) : next_queue[i].data # encode_utf8(text)

\* Only the original input is ever fed to the probes twice.
C30_OnlyTheInput ==
  Searching =>
    \A i \in 1..Len(expanded) : \A j \in 1..Len(expanded) :
      (i < j /\ expanded[i] = expanded[j]) => expanded[i] = encode_utf8(text)

\* The original input came back after two steps and was expanded again.
C30_InputExpandedTwice ==
  /\ Searching
  /\ Len(expanded) = 3
  /\ expanded[3] = expanded[1]

(***************************************************************************)
(* The keyed decryption loop of the menu                                   *)
(***************************************************************************)

MaxLoopLines == 2
LoopCiphers == KeyedCiphers \cup {"rot13"}
LoopTexts == {"AD", "J a"}
LoopKeys == {"KEY", "GYBN", ""}
LoopKeys2 == {"K", ""}
\* The answers to "Enter=try another key, c=copy+menu, q=menu".
LoopAnswers == {"", "c", "copy", "y", "yes", "q", "quit", "n"}

loop_unchanged ==
  <<args, active, gather_vars, rank_vars, printed, aborted, paging, page_count,
    error, summary>>

\* _decrypt_with_key_loop is called from the menu.
KeyLoopEnter ==
  /\ NotCalled /\ pc = "start"
  /\ \E cipher \in LoopCiphers : \E t \in LoopTexts :
       call' = [name |-> "_decrypt_with_key_loop", args |-> <<cipher, t>>]
  /\ pc' = "loop_try"
  /\ stdout' = <<>>
  /\ UNCHANGED <<ret, loop_unchanged>>

\* Lines 838-873: one pass of the try block.  The keys are what the user
\* types at the prompts; an unknown cipher name prompts for nothing.  A
\* ValueError is printed and the loop continues; another exception leaves
\* the function.
KeyLoopTry ==
  /\ call.name = "_decrypt_with_key_loop" /\ pc = "loop_try"
  /\ Len(stdout) < MaxLoopLines
  /\ \E key \in LoopKeys : \E key2 \in LoopKeys2 :
     \E cipher \in {call.args[1]} :
     \E output \in {decrypt_keyed(cipher, call.args[2], key, key2)} :
          /\ cipher \notin TwoKeyCiphers => key2 = ""
          /\ cipher \notin KeyedCiphers => key = ""
          /\ IF output.raised = "ValueError"
             THEN /\ stdout' = Append(stdout,
                                      IF cipher \in KeyedCiphers THEN "ValueError"
                                      ELSE "Unknown cipher: " \o cipher)
                  /\ pc' = "loop_try"
                  /\ ret' = ret
             ELSE IF output.raised # ""
             THEN /\ pc' = "loop_raised"
                  /\ ret' = output
                  /\ stdout' = stdout
             ELSE /\ stdout' = Append(stdout, output.value)
                  /\ pc' = "loop_action"
                  /\ ret' = ret
  /\ UNCHANGED <<call, loop_unchanged>>

\* Lines 877-884: the answer after a decryption was printed.
KeyLoopAction ==
  /\ call.name = "_decrypt_with_key_loop" /\ pc = "loop_action"
  /\ \E action \in LoopAnswers :
       IF action \in {"c", "copy", "y", "yes"}
       THEN /\ pc' = "loop_returned"
            /\ ret' = Returned(TRUE)
            /\ \E copied \in BOOLEAN :
                 stdout' = IF copied THEN Append(stdout, "Copied to clipboard.") ELSE stdout
       ELSE IF action \in {"q", "quit"}
       THEN /\ pc' = "loop_returned"
            /\ ret' = Returned(FALSE)
            /\ stdout' = stdout
       ELSE /\ pc' = "loop_try"
            /\ UNCHANGED <<ret, stdout>>
  /\ UNCHANGED <<call, loop_unchanged>>

\* _prompt_line and _prompt_decrypt_action: Ctrl-C at a prompt ends the
\* program with SystemExit(0).
KeyLoopInterrupt ==
  /\ call.name = "_decrypt_with_key_loop"
  /\ \/ pc = "loop_action"
     \/ pc = "loop_try" /\ call.args[1] \in KeyedCiphers
  /\ pc' = "loop_raised"
  /\ ret' = Raised("SystemExit")
  /\ UNCHANGED <<call, stdout, loop_unchanged>>

KeyLoopNext == KeyLoopEnter \/ KeyLoopTry \/ KeyLoopAction \/ KeyLoopInterrupt

SpecKeyLoop == CallInit /\ [][KeyLoopNext]_vars

\* C27: called with a cipher name that is none of the ten keyed ciphers,
\* the loop reports the unknown name once and ends without retrying.
C27_UnknownReportedOnce ==
  (call.name = "_decrypt_with_key_loop" /\ call.args[1] \notin KeyedCiphers) =>
    /\ Len(stdout) <= 1
    /\ stdout # <<>> => pc \in {"loop_returned", "loop_raised"}

\* The loop is back at the top of its try block with the unknown name
\* reported twice.
C27_UnknownRetried ==
  /\ call.name = "_decrypt_with_key_loop" /\ call.args[1] = "rot13"
  /\ stdout = <<"Unknown cipher: rot13", "Unknown cipher: rot13">>
  /\ pc = "loop_try"

\* With an unknown name the loop never leaves its try block.
C27_UnknownNeverReturns ==
  (call.name = "_decrypt_with_key_loop" /\ call.args[1] \notin KeyedCiphers) =>
    pc = "loop_try"

\* With a keyed cipher the loop returns only on a copy or quit answer,
\* after a decryption was printed.
C27_ReturnsAfterOutput ==
  (call.name = "_decrypt_with_key_loop" /\ pc = "loop_returned") =>
    /\ call.args[1] \in KeyedCiphers
    /\ ret \in {Returned(TRUE), Returned(FALSE)}
    /\ stdout # <<>>

\* The loop returned for a keyed cipher.
C27_Returned ==
  /\ call.name = "_decrypt_with_key_loop" /\ pc = "loop_returned"
  /\ ret = Returned(FALSE)

(***************************************************************************)
(* The command line in decode mode                                         *)
(***************************************************************************)

DEFAULT_MAX_RESULTS == 50

\* main lines 1509-1525: the options _decode_text gets for the parsed
\* arguments.  With --decoder given and --all, --top, --max-per-decoder left
\* alone show_all is switched on; with no --decoder and the same left alone
\* the list is neither capped nor cut to the default top.
effective_options(cli) ==
  LET defaults == /\ ~cli.all
                  /\ cli.top = DEFAULT_TOP
                  /\ cli.max_per_decoder = DEFAULT_MAX_PER_DECODER
      given == cli.decoder # <<>>
  IN [min_score |-> cli.min_score, min_delta |-> cli.min_delta,
      show_all |-> IF given /\ defaults THEN TRUE ELSE cli.all,
      top |-> IF ~given /\ defaults THEN DEFAULT_MAX_RESULTS ELSE cli.top,
      rank |-> cli.rank,
      max_per_decoder |-> IF ~given /\ defaults THEN 0 ELSE cli.max_per_decoder,
      page_size |-> 0, isatty |-> TRUE]

\* The values of --all, --top, --max-per-decoder, --min-score, --min-delta
\* and --rank on the command line.
CommandLines(decoder) ==
  [decoder : {decoder}, all : BOOLEAN,
   top : (1..MaxTop) \cup {DEFAULT_TOP},
   max_per_decoder : (0..MaxPerDecoder) \cup {DEFAULT_MAX_PER_DECODER},
   min_score : MinScores, min_delta : MinDeltas, rank : RankModes]

\* main lines 1509-1544 with _decode_text lines 778-821: the ranking stage
\* of a search started from the command line (page size 0).
MainRankAndFilter ==
  /\ pc = "rank"
  /\ \E cli \in CommandLines(decoder_names) :
       LET o == effective_options(cli)
           sorted == sort_scored(score_items(dedupe(results, {}),
                                             english_score(strip(text))), o.rank)
           passed_ == score_filter(sorted, o.min_score, o.min_delta)
           capped_ == cap_per_decoder(passed_, o.max_per_decoder)
       IN /\ call' = [name |-> "main", args |-> cli]
          /\ opts' = o
          /\ deduped' = dedupe(results, {})
          /\ scored_items' = sorted
          /\ total_candidates' = Len(sorted)
          /\ IF o.show_all
             THEN /\ passed' = sorted
                  /\ capped' = sorted
                  /\ filtered' = sorted
                  /\ total_filtered' = Len(sorted)
             ELSE /\ passed' = passed_
                  /\ capped' = capped_
                  /\ total_filtered' = Len(capped_)
                  /\ filtered' = truncate(capped_, o.top)
  /\ paging' = FALSE
  /\ printed' = 0
  /\ aborted' = FALSE
  /\ page_count' = 0
  /\ stdout' = <<>>
  /\ pc' = "print"
  /\ UNCHANGED <<ret, args, active, gather_vars, error, summary>>

MainNext ==
  \/ Start
  \/ GatherCall
  \/ GatherConsume
  \/ GatherNextDecoder
  \/ GatherNextLevel
  \/ GatherReturn
  \/ MainRankAndFilter
  \/ PrintItem
  \/ Finish

SpecMain == Init /\ [][MainNext]_vars

PrintedAboveThresholds ==
  \A i \in 1..Len(stdout) :
    /\ stdout[i].abs_score >= call.args.min_score
    /\ stdout[i].delta >= call.args.min_delta

\* C28: in decode mode without --all every printed result has abs_score >=
\* --min-score and delta >= --min-delta for every combination of the other
\* options, also with --decoder names given and --top and --max-per-decoder
\* left at their defaults.
C28_ThresholdsWithoutAll ==
  (call.name = "main" /\ ~call.args.all) => PrintedAboveThresholds

\* The thresholds do hold without --all when no --decoder is given or --top
\* or --max-per-decoder is set to another value than its default.
C28_ThresholdsOtherwise ==
  (call.name = "main" /\ ~call.args.all
     /\ (call.args.decoder = <<>> \/ call.args.top # DEFAULT_TOP
           \/ call.args.max_per_decoder # DEFAULT_MAX_PER_DECODER))
    => PrintedAboveThresholds

\* A result below --min-score was printed for --decoder rot13 with the other
\* options left alone.
C28_PrintedBelowThreshold ==
  /\ call.name = "main" /\ ~call.args.all
  /\ call.args.decoder = <<"rot13">>
  /\ call.args.top = DEFAULT_TOP /\ call.args.max_per_decoder = DEFAULT_MAX_PER_DECODER
  /\ opts.show_all
  /\ \E i \in 1..Len(stdout) : stdout[i].abs_score < call.args.min_score

=============================================================================
